---- MODULE Spec2Model ----
(***************************************************************************)
(* Model of the Lumen potion-flow analytics core: drain detection, ticket  *)
(* reconciliation, reporting and the fetch cache.  Levels and volumes are  *)
(* integers (litres), timestamps are integers (minutes since the start of  *)
(* day 0), rates are exact fractions <<numerator, denominator>>.           *)
(***************************************************************************)
EXTENDS Integers, Sequences, FiniteSets, TLC

(***************************************************************************)
(* Program constants (src/backend/config.py).                              *)
(***************************************************************************)
\* NEGATIVE_RATE_THRESHOLD = -0.05 L/min, kept as the fraction -5/100
NEGATIVE_RATE_THRESHOLD_NUM == -5
NEGATIVE_RATE_THRESHOLD_DEN == 100
\* MIN_DRAIN_VOLUME = 20.0
MIN_DRAIN_VOLUME == 20
\* TICKET_TOLERANCE_PCT = 2.0
TICKET_TOLERANCE_PCT == 2

\* Python's None and numpy's nan: values outside every data domain
None == -1000001
NaN == -1000002
isnan(x) == x = NaN

\* minutes in a calendar day: what datetime.date() truncates by
MinutesPerDay == 1440
date(t) == t \div MinutesPerDay

(***************************************************************************)
(* Bounds of the model.                                                    *)
(***************************************************************************)
\* longest level series of one cauldron
MaxSamples == 5

\* sample levels, sampling gaps (minutes) and the first timestamp (23:00)
Levels == {10, 30, 45}
Gaps == {30, 600}
FirstTimestamp == 23 * 60
FillRates == {-1, 1}
TravelTimes == {0, 90}

(***************************************************************************)
(* Generic helpers.                                                        *)
(***************************************************************************)
abs(x) == IF x < 0 THEN -x ELSE x

RECURSIVE GCD(_, _)
GCD(a, b) == IF b = 0 THEN a ELSE GCD(b, a % b)

\* a fraction n/d (d > 0) in lowest terms
Frac(n, d) == LET g == GCD(abs(n), d) IN <<n \div g, d \div g>>
FracLess(p, q) == p[1] * q[2] < q[1] * p[2]

RECURSIVE SeqSum(_)
SeqSum(s) == IF s = <<>> THEN 0 ELSE Head(s) + SeqSum(Tail(s))

(***************************************************************************)
(* Strings: str.lower(), `sub in s`, str.replace(old, new).                *)
(***************************************************************************)
\* one character of str.lower() (ASCII letters)
LowerChar(ch) ==
    CASE ch = "A" -> "a" [] ch = "B" -> "b" [] ch = "C" -> "c" [] ch = "D" -> "d"
      [] ch = "E" -> "e" [] ch = "F" -> "f" [] ch = "G" -> "g" [] ch = "H" -> "h"
      [] ch = "I" -> "i" [] ch = "J" -> "j" [] ch = "K" -> "k" [] ch = "L" -> "l"
      [] ch = "M" -> "m" [] ch = "N" -> "n" [] ch = "O" -> "o" [] ch = "P" -> "p"
      [] ch = "Q" -> "q" [] ch = "R" -> "r" [] ch = "S" -> "s" [] ch = "T" -> "t"
      [] ch = "U" -> "u" [] ch = "V" -> "v" [] ch = "W" -> "w" [] ch = "X" -> "x"
      [] ch = "Y" -> "y" [] ch = "Z" -> "z" [] OTHER -> ch

\* s.lower()
RECURSIVE lower(_)
lower(s) == IF Len(s) = 0 THEN "" ELSE LowerChar(Head(s)) \o lower(Tail(s))

\* sub in s
contains(s, sub) ==
    \E k \in 1..(Len(s) - Len(sub) + 1) : SubSeq(s, k, k + Len(sub) - 1) = sub

\* s.replace(old, new): every occurrence, left to right (old is not empty)
RECURSIVE replace(_, _, _)
replace(s, old, new) ==
    IF Len(s) < Len(old) THEN s
    ELSE IF SubSeq(s, 1, Len(old)) = old
         THEN new \o replace(SubSeq(s, Len(old) + 1, Len(s)), old, new)
         ELSE Head(s) \o replace(Tail(s), old, new)

(***************************************************************************)
(* sort_values with the default kind ('quicksort', not stable): the rows   *)
(* come out in key order, rows with equal keys in an order the numpy build *)
(* decides.  ArgSorts is the set of row orders (sequences of positions)    *)
(* that are in ascending key order.                                        *)
(***************************************************************************)
RECURSIVE ArgSorts(_, _)
ArgSorts(keys, left) ==
    IF left = {} THEN { <<>> }
    ELSE LET lowest == { j \in left : \A k \in left : keys[j] <= keys[k] }
         IN  UNION { { <<j>> \o p : p \in ArgSorts(keys, left \ {j}) } : j \in lowest }

\* the rows taken in the order p
Take(rows, p) == [k \in DOMAIN p |-> rows[p[k]]]

(***************************************************************************)
(* A level series: a sequence of samples [t, level] in timestamp order.    *)
(***************************************************************************)
RECURSIVE MkSeries(_, _, _)
MkSeries(gs, ls, t0) ==
    IF ls = <<>> THEN <<>>
    ELSE <<[t |-> t0, level |-> Head(ls)]>>
         \o MkSeries(Tail(gs), Tail(ls), t0 + Head(gs))

SeriesOfLen(n, lv) ==
    { MkSeries(gs, ls, FirstTimestamp) : gs \in [1..n -> Gaps], ls \in [1..n -> lv] }

SeriesSet(lv) == UNION { SeriesOfLen(n, lv) : n \in 0..MaxSamples }

\* series.dropna()
dropna(s) == SelectSeq(s, LAMBDA p : ~isnan(p.level))

(***************************************************************************)
(* detect_drain_events: the per-sample pass over one cauldron's series.    *)
(***************************************************************************)
\* rates = level_diffs / time_diffs at (1-based) position k >= 2
rates(s, k) == <<s[k].level - s[k-1].level, s[k].t - s[k-1].t>>

\* is_draining = rates < NEGATIVE_RATE_THRESHOLD; the first rate is NaN
\* (never below), a zero time difference gives -inf, +inf or NaN
is_draining_FirstFlagged(s, k) ==
    IF k > Len(s) THEN FALSE
    ELSE IF k < 2 THEN TRUE
    ELSE LET r == rates(s, k) IN
         IF r[2] = 0 THEN r[1] < 0
         ELSE r[1] * NEGATIVE_RATE_THRESHOLD_DEN < NEGATIVE_RATE_THRESHOLD_NUM * r[2]
is_draining(s, k) ==
    IF k < 2 \/ k > Len(s) THEN FALSE
    ELSE LET r == rates(s, k) IN
         IF r[2] = 0 THEN r[1] < 0
         ELSE r[1] * NEGATIVE_RATE_THRESHOLD_DEN < NEGATIVE_RATE_THRESHOLD_NUM * r[2]

\* rates.iloc[a:b].min() over 1-based positions a..b-1; NaN entries are skipped
RECURSIVE MinRate(_, _, _)
MinRate(s, a, b) ==
    IF a >= b THEN <<NaN, 1>>
    ELSE IF a < 2 THEN MinRate(s, a + 1, b)
    ELSE LET r == rates(s, a)
             rest == MinRate(s, a + 1, b)
             here == IF r[2] = 0 THEN <<r[1], 0>> ELSE Frac(r[1], r[2])
         IN  IF isnan(rest[1]) THEN here
             ELSE IF FracLess(rest, here) THEN rest ELSE here

\* _calc_ticket_date: calendar date of drain_end + travel_time
_calc_ticket_date_IgnoresTravel(drain_end, travel) == date(drain_end)
_calc_ticket_date(drain_end, travel) == date(drain_end + travel)

\* the emission test of a closed drain
EmitGuard_NoMinimum(level_drop, total_collected) ==
    level_drop > 0 /\ total_collected > 0
EmitGuard(level_drop, total_collected) ==
    level_drop >= MIN_DRAIN_VOLUME /\ total_collected > 0

\* line 71: (drain_end - drain_start).total_seconds() / 60
DrainDuration_Hours(drain_start, drain_end) == (drain_end - drain_start) \div 60
DrainDuration(drain_start, drain_end) == drain_end - drain_start

\* the event dictionary built when a drain closes at position k
ClosedDrain(s, k, st, cid, fr, travel) ==
    LET drain_end == s[k].t
        level_after == s[k].level
        level_before == st.peak_level
        level_drop == level_before - level_after
        drain_duration == DrainDuration(st.drain_start, drain_end)
        potion_generated == fr * drain_duration
    IN  [cauldron_id |-> cid,
         start_time |-> st.drain_start,
         end_time |-> drain_end,
         date |-> date(drain_end),
         ticket_date |-> _calc_ticket_date(drain_end, travel),
         level_before |-> level_before,
         level_after |-> level_after,
         level_drop |-> level_drop,
         drain_duration_min |-> drain_duration,
         potion_generated_during_drain |-> potion_generated,
         total_collected |-> level_drop + potion_generated,
         min_rate_during_drain |-> MinRate(s, st.drain_start_idx, k)]

\* the detector's loop variables before the first sample
DetectorStart ==
    [in_drain |-> FALSE, drain_start |-> None, drain_start_idx |-> None,
     peak_level |-> None, drain_events |-> <<>>, closed |-> <<>>]

\* lines 58-59: if peak_level is None or level > peak_level: peak_level = level
RunningPeak_LastLevel(peak_level, level) == level
RunningPeak(peak_level, level) ==
    IF peak_level = None \/ level > peak_level THEN level ELSE peak_level

\* lines 91-92: after the emission test, whatever its result, peak_level = level
PeakAfterClose_OnlyWhenEmitted(emitted, peak_level, level) ==
    IF emitted THEN level ELSE peak_level
PeakAfterClose(emitted, peak_level, level) == level

\* line 62: drain_start = timestamp, whatever the previous drain left in it
DrainStart_KeepsFirst(previous, timestamp) ==
    IF previous = None THEN timestamp ELSE previous
DrainStart(previous, timestamp) == timestamp

\* one iteration of `for i in range(len(series))` at position k
LoopBody(s, k, st, cid, fr, travel) ==
    LET level == s[k].level
        is_drain_point == is_draining(s, k)
    IN
    IF ~st.in_drain THEN
        LET peak == RunningPeak(st.peak_level, level)
        IN  IF is_drain_point
            THEN [st EXCEPT !.peak_level = peak, !.in_drain = TRUE,
                            !.drain_start = DrainStart(st.drain_start, s[k].t),
                            !.drain_start_idx = k]
            ELSE [st EXCEPT !.peak_level = peak]
    ELSE
        IF ~is_drain_point THEN
            LET ev == ClosedDrain(s, k, st, cid, fr, travel)
            IN  [st EXCEPT
                   !.drain_events =
                       IF EmitGuard(ev.level_drop, ev.total_collected)
                       THEN Append(@, ev) ELSE @,
                   !.closed = Append(@, ev),
                   !.in_drain = FALSE,
                   !.peak_level =
                       PeakAfterClose(EmitGuard(ev.level_drop, ev.total_collected),
                                      st.peak_level, level)]
        ELSE st

RECURSIVE RunLoop(_, _, _, _, _, _)
RunLoop(s, k, st, cid, fr, travel) ==
    IF k > Len(s) THEN st
    ELSE RunLoop(s, k + 1, LoopBody(s, k, st, cid, fr, travel), cid, fr, travel)

\* detect_drain_events(series, cauldron_id, fill_rate, travel_time): the rows
\* of the returned DataFrame
detect_drain_events(raw, cid, fr, travel) ==
    LET s == dropna(raw) IN
    IF Len(s) < 3 THEN <<>>
    ELSE RunLoop(s, 1, DetectorStart, cid, fr, travel).drain_events

(***************************************************************************)
(* detect_all_drains: every cauldron column of the level table.            *)
(* The level table is [index, columns, data]: the shared timestamps, the   *)
(* column names in order, and each column's levels (NaN where missing).    *)
(***************************************************************************)
\* dict.get(key, default)
get(d, key, default) == IF key \in DOMAIN d THEN d[key] ELSE default

\* col.replace('cauldron_levels.', '')
ColumnId(col) == replace(col, "cauldron_levels.", "")

\* the test of `cauldron_cols`: 'cauldron' in col.lower()
IsCauldronColumn_Any(col) == TRUE
IsCauldronColumn(col) == contains(lower(col), "cauldron")

\* [col for col in df_levels.columns if 'cauldron' in col.lower()]
cauldron_cols(df) == SelectSeq(df.columns, IsCauldronColumn)

\* df_levels[col]: the column as a series over the shared index
ColumnSeries(df, col) ==
    [k \in DOMAIN df.index |-> [t |-> df.index[k], level |-> df.data[col][k]]]

\* the test that skips a cauldron: np.isnan(fill_rate) or fill_rate <= 0
Unusable_OnlyNegative(fr) == isnan(fr) \/ fr < 0
Unusable(fr) == isnan(fr) \/ fr <= 0

\* sort_values('end_time'): the tables it may return
sort_values_end_time_KeepsConcatOrder(evs) == { evs }
sort_values_end_time(evs) ==
    { Take(evs, p) : p \in ArgSorts([k \in DOMAIN evs |-> evs[k].end_time], DOMAIN evs) }

\* one iteration of `for col in cauldron_cols`: the events appended to
\* all_drains (nothing for a skipped cauldron)
ColumnEvents(df, col, fill_rates, travel_times) ==
    LET id == ColumnId(col)
        fr == get(fill_rates, col, NaN)
        travel == get(travel_times, id, 0)
    IN  IF Unusable(fr) THEN <<>>
        ELSE detect_drain_events(ColumnSeries(df, col), id, fr, travel)

RECURSIVE ConcatColumns(_, _, _, _)
ConcatColumns(df, cols, fill_rates, travel_times) ==
    IF cols = <<>> THEN <<>>
    ELSE ColumnEvents(df, Head(cols), fill_rates, travel_times)
         \o ConcatColumns(df, Tail(cols), fill_rates, travel_times)

\* pd.concat of the events of the cauldron columns, in column order
AllEvents(df, fill_rates, travel_times) ==
    ConcatColumns(df, cauldron_cols(df), fill_rates, travel_times)

\* detect_all_drains(df_levels, fill_rates, travel_times): the tables it may
\* return (no row when no cauldron has an event)
detect_all_drains(df, fill_rates, travel_times) ==
    sort_values_end_time(AllEvents(df, fill_rates, travel_times))

(***************************************************************************)
(* Tables.  A DataFrame is [cols, rows]: its column names and its rows in  *)
(* positional order.  An API payload is FetchFailed (the {} that a failed  *)
(* fetch returns) or a list of records.                                    *)
(***************************************************************************)
FetchFailed == [failed |-> TRUE, records |-> <<>>]
Payload(records) == [failed |-> FALSE, records |-> records]
EmptyFrame == [cols |-> {}, rows |-> <<>>]
\* the value of a result that has not been computed yet
NotComputed == [computed |-> FALSE]

\* _normalize_json(data, key): a list stays, anything else without the key
\* is wrapped as a one-element list; the {} of a failed fetch becomes [{}]
_normalize_json(data) == IF data.failed THEN << <<>> >> ELSE data.records

\* pd.DataFrame(records): the columns are the keys of the records, so no
\* record, or only empty ones, gives a frame without columns
DataFrame(records) ==
    [cols |-> UNION { DOMAIN records[k] : k \in DOMAIN records }, rows |-> records]

\* transform_tickets: 'date' is parsed to a timestamp when the column exists
transform_tickets(tickets_data) == DataFrame(_normalize_json(tickets_data))

(***************************************************************************)
(* match_drains_to_tickets.                                                *)
(***************************************************************************)
TicketColumns == {"ticket_id", "cauldron_id", "date", "amount_collected", "courier_id"}

\* df_tickets[(cauldron_id == ...) & (date.dt.date == ticket_date)]
matching_tickets(drain, tickets) ==
    SelectSeq(tickets.rows,
              LAMBDA t : t.cauldron_id = drain.cauldron_id
                         /\ date(t.date) = drain.ticket_date)

\* min(rows, key=|drain_amount - amount_collected|): the first row among
\* those nearest in amount
RECURSIVE best_ticket_LastNearest(_, _)
best_ticket_LastNearest(cands, drain_amount) ==
    IF Len(cands) = 1 THEN cands[1]
    ELSE LET rest == best_ticket_LastNearest(Tail(cands), drain_amount)
         IN  IF abs(drain_amount - rest.amount_collected)
                  <= abs(drain_amount - Head(cands).amount_collected)
             THEN rest ELSE Head(cands)
RECURSIVE best_ticket(_, _)
best_ticket(cands, drain_amount) ==
    IF Len(cands) = 1 THEN cands[1]
    ELSE LET rest == best_ticket(Tail(cands), drain_amount)
         IN  IF abs(drain_amount - rest.amount_collected)
                  < abs(drain_amount - Head(cands).amount_collected)
             THEN rest ELSE Head(cands)

\* pct_diff, as an exact fraction: |drain - ticket| / drain * 100, 0 when
\* the drain amount is not positive
pct_diff(drain_amount, ticket_amount) ==
    IF drain_amount > 0
    THEN Frac(abs(drain_amount - ticket_amount) * 100, drain_amount)
    ELSE <<0, 1>>

\* abs(pct_diff) <= TICKET_TOLERANCE_PCT
WithinTolerance_Strict(pct) == pct[1] < TICKET_TOLERANCE_PCT * pct[2]
WithinTolerance(pct) == pct[1] <= TICKET_TOLERANCE_PCT * pct[2]

\* the status of a drain against its selected ticket
Classify_SignSwapped(drain_amount, ticket_amount) ==
    IF WithinTolerance(pct_diff(drain_amount, ticket_amount)) THEN "MATCHED"
    ELSE IF ticket_amount > drain_amount THEN "UNDER_REPORTED"
    ELSE "OVER_REPORTED"
Classify(drain_amount, ticket_amount) ==
    IF WithinTolerance(pct_diff(drain_amount, ticket_amount)) THEN "MATCHED"
    ELSE IF ticket_amount < drain_amount THEN "UNDER_REPORTED"
    ELSE "OVER_REPORTED"

\* the result row of a drain whose candidate set is empty
NoTicketRow(drain) ==
    [drain_id |-> <<drain.cauldron_id, drain.end_time>>,
     cauldron_id |-> drain.cauldron_id,
     drain_date |-> drain.date,
     ticket_date |-> drain.ticket_date,
     drain_time |-> drain.end_time,
     drain_amount |-> drain.total_collected,
     ticket_id |-> None,
     ticket_amount |-> None,
     difference |-> None,
     difference_pct |-> None,
     status |-> "NO_TICKET_FOUND"]

\* the result row of a drain against the nearest candidate
BestTicketRow(drain, cands) ==
    LET drain_amount == drain.total_collected
        best == best_ticket(cands, drain_amount)
        ticket_amount == best.amount_collected
    IN  [drain_id |-> <<drain.cauldron_id, drain.end_time>>,
         cauldron_id |-> drain.cauldron_id,
         drain_date |-> drain.date,
         ticket_date |-> drain.ticket_date,
         drain_time |-> drain.end_time,
         drain_amount |-> drain_amount,
         ticket_id |-> best.ticket_id,
         ticket_amount |-> ticket_amount,
         difference |-> ticket_amount - drain_amount,
         difference_pct |-> pct_diff(drain_amount, ticket_amount),
         status |-> Classify(drain_amount, ticket_amount)]

\* df_tickets['cauldron_id'] and df_tickets['date'] raise KeyError on a
\* frame that lacks the column
TicketLookupRaises(tickets) ==
    ~({"cauldron_id", "date"} \subseteq tickets.cols)

\* line 144: the table the candidates are filtered from is df_tickets itself,
\* whatever the rows appended so far
TicketPool_Unclaimed(tickets, done) ==
    IF "ticket_id" \in tickets.cols
    THEN [tickets EXCEPT !.rows =
             SelectSeq(@, LAMBDA t : \A k \in DOMAIN done :
                                        done[k].ticket_id # t.ticket_id)]
    ELSE tickets
TicketPool(tickets, done) == tickets

\* one iteration of `for _, drain in df_drains.iterrows()`
MatchRow(drain, tickets) ==
    LET cands == matching_tickets(drain, tickets)
    IN  IF Len(cands) = 0 THEN NoTicketRow(drain) ELSE BestTicketRow(drain, cands)

(***************************************************************************)
(* Reports over the matched table.                                         *)
(***************************************************************************)
\* Series.sum(): missing values (None/NaN) are skipped
RECURSIVE SumSkipNa(_)
SumSkipNa(s) ==
    IF s = <<>> THEN 0
    ELSE (IF Head(s) = None THEN 0 ELSE Head(s)) + SumSkipNa(Tail(s))

Column(rows, f) == [k \in DOMAIN rows |-> rows[k][f]]

IsSuspicious(r) == r.status \in {"UNDER_REPORTED", "NO_TICKET_FOUND"}

\* get_suspicious_patterns: total_unaccounted
total_unaccounted(rows) ==
    LET suspicious == SelectSeq(rows, IsSuspicious)
    IN  IF Len(suspicious) > 0
        THEN abs(SumSkipNa(Column(suspicious, "difference")))
        ELSE 0

\* get_system_summary: total_unaccounted, over the rows with difference < 0
\* (a missing difference compares False)
summary_unaccounted(rows) ==
    abs(SumSkipNa(Column(
        SelectSeq(rows, LAMBDA r : r.difference # None /\ r.difference < 0),
        "difference")))

\* cauldron ids in the order groupby('cauldron_id') sorts them
CauldronIds == <<"c1", "c2", "c3", "c4", "c5", "c6">>

\* sort_values('difference', ascending=False): the tables it may return
SortDesc(gs) ==
    { Take(gs, p) : p \in ArgSorts([k \in DOMAIN gs |-> -gs[k].difference], DOMAIN gs) }

head(s, n) == SubSeq(s, 1, IF Len(s) < n THEN Len(s) ELSE n)

\* suspicious.groupby('cauldron_id').agg(difference = |sum|, drain_amount =
\* count), one group per cauldron that has suspicious rows, in key order
RECURSIVE by_cauldron(_, _)
by_cauldron(suspicious, ids) ==
    IF ids = <<>> THEN <<>>
    ELSE LET mine == SelectSeq(suspicious, LAMBDA r : r.cauldron_id = Head(ids))
             rest == by_cauldron(suspicious, Tail(ids))
         IN  IF Len(mine) = 0 THEN rest
             ELSE <<[cauldron_id |-> Head(ids),
                     difference |-> abs(SumSkipNa(Column(mine, "difference"))),
                     drain_amount |-> Len(mine)]>> \o rest

\* the groups of the suspicious rows, before they are sorted
SuspiciousGroups(rows) == by_cauldron(SelectSeq(rows, IsSuspicious), CauldronIds)

\* the head(5) of the sorted groups that have at least 3 events, as
\* systematic-theft entries
systematic_theft(sorted) ==
    LET kept == SelectSeq(head(sorted, 5), LAMBDA g : g.drain_amount >= 3)
    IN  [k \in DOMAIN kept |->
            [cauldron_id |-> kept[k].cauldron_id,
             missing_volume |-> kept[k].difference,
             event_count |-> kept[k].drain_amount]]

\* the dict returned when the groups came out of the sort as `sorted`
PatternsWith(rows, sorted) ==
    [systematic_theft |-> systematic_theft(sorted),
     consistent_under_reporters |-> <<>>,
     missing_tickets |->
         Len(SelectSeq(rows, LAMBDA r : r.status = "NO_TICKET_FOUND")),
     total_unaccounted |-> total_unaccounted(rows)]

\* get_suspicious_patterns(df_matched): the dicts it may return; {} for an
\* empty table
EmptyDict == [empty |-> TRUE]
get_suspicious_patterns(rows) ==
    IF Len(rows) = 0 THEN { EmptyDict }
    ELSE { PatternsWith(rows, s) : s \in SortDesc(SuspiciousGroups(rows)) }

\* get_system_summary: the entries computed from the drain events, the
\* tickets and the matched table
get_system_summary(drains, tickets, rows) ==
    LET base == [total_drain_events |-> Len(drains),
                 total_collected |-> SeqSum(Column(drains, "total_collected")),
                 total_tickets |-> Len(tickets.rows)]
    IN  IF Len(rows) > 0
        THEN [total_drain_events |-> base.total_drain_events,
              total_collected |-> base.total_collected,
              total_tickets |-> base.total_tickets,
              matching_accuracy |->
                  Frac(Len(SelectSeq(rows, LAMBDA r : r.status = "MATCHED")) * 100,
                       Len(rows)),
              suspicious_drains |-> Len(SelectSeq(rows, IsSuspicious)),
              total_unaccounted |-> summary_unaccounted(rows)]
        ELSE base

(***************************************************************************)
(* fetch_api_data and its cache.                                           *)
(***************************************************************************)
Endpoints == {"/api/Tickets", "/api/Data"}

\* how requests.get / raise_for_status can end; the three failures are
\* subclasses of requests.exceptions.RequestException
RequestOutcomes == {"ok", "timeout", "connection_error", "http_error"}
RequestException == {"timeout", "connection_error", "http_error"}

\* a cache slot: absent, or the payload stored under the key
Absent == [present |-> FALSE, data |-> FetchFailed]
Stored(data) == [present |-> TRUE, data |-> data]

\* line 20-21: the cached value is returned when use_cache and the key is present
CacheHit(cache, endpoint, use_cache) == use_cache /\ cache[endpoint].present

\* lines 27-29: a successful fetch stores the payload (APIClient: only
\* when cache_enabled) and returns it
OnSuccess(cache, enabled, endpoint, data) ==
    [cache |-> IF enabled THEN [cache EXCEPT ![endpoint] = Stored(data)] ELSE cache,
     result |-> data,
     raised |-> FALSE]

\* lines 30-32: a RequestException is caught, {} is returned
OnRequestException_CachesEmpty(cache, endpoint) ==
    [cache |-> [cache EXCEPT ![endpoint] = Stored(FetchFailed)],
     result |-> FetchFailed,
     raised |-> FALSE]
OnRequestException(cache, endpoint) ==
    [cache |-> cache, result |-> FetchFailed, raised |-> FALSE]

(***************************************************************************)
(* State.                                                                  *)
(***************************************************************************)
VARIABLES
    pc,             \* which operation is running and where it stands
    series,         \* detect_drain_events: the series after dropna()
    cauldron_id,    \* detect_drain_events: the cauldron
    fill_rate,      \* detect_drain_events: fill rate, L/min
    travel_time,    \* detect_drain_events: travel time, minutes
    i,              \* detect_drain_events: next position of the loop (1-based)
    det,            \* detect_drain_events: in_drain, drain_start,
                    \* drain_start_idx, peak_level, drain_events (+ every
                    \* closed drain, emitted or not, in `closed`)
    tickets_data,   \* the payload fetched from /api/Tickets
    df_tickets,     \* transform_tickets(tickets_data)
    df_drains,      \* match_drains_to_tickets: the drain events (rows)
    m,              \* match_drains_to_tickets: next drain of the loop
    results,        \* match_drains_to_tickets: the result rows so far
    summary,        \* the summary dict computed from the matched table
    patterns,       \* get_suspicious_patterns' result
    _cache,         \* the fetch cache: endpoint -> slot
    cache_enabled,  \* APIClient.cache_enabled (always TRUE for backend/api.py)
    calls,          \* fetch_api_data calls made so far
    requests,       \* network requests issued so far, per endpoint
    last_call,      \* the last fetch_api_data call: its arguments, how the
                    \* request ended, the cache before it, what it returned
    failed,         \* the failed requests: the endpoint, and how many calls
                    \* had begun when the failure was returned
    in_flight,      \* the calls waiting in requests.get (one per thread)
    df_levels,      \* the level table
    fill_rates,     \* dict: level column -> fill rate (L/min)
    travel_times,   \* dict: cauldron id -> travel time (minutes)
    c,              \* detect_all_drains: next column of the loop
    all_drains,     \* detect_all_drains: the event lists appended so far
    first,          \* what TicketMatcher returned for the same tables
    df_cauldrons,   \* the cauldron table: rows [id, max_volume]
    df_fill_rates,  \* the fill-rate table: rows [cauldron, fill_rate_per_min]
    df_overflow,    \* calculate_overflow_risk's result
    df_priority,    \* get_overflow_priority's result
    df_witch_perf,  \* get_witch_performance's result
    fill_estimates, \* calculate_fill_rates' result
    sort_memo       \* what sort_values has returned so far, per sorted table

vars == <<pc, series, cauldron_id, fill_rate, travel_time, i, det,
          tickets_data, df_tickets, df_drains, m, results, summary, patterns,
          _cache, cache_enabled, calls, requests, last_call, failed, in_flight,
          df_levels, fill_rates, travel_times, c, all_drains, first,
          df_cauldrons, df_fill_rates, df_overflow, df_priority, df_witch_perf,
          fill_estimates, sort_memo>>

\* sort_values is a function of the table in one build: a table that was
\* sorted before comes out as it did then
Sorted(by, rows, out) ==
    \A r \in sort_memo : (r.by = by /\ r.rows = rows) => r.result = out
Remember(by, rows, out) ==
    sort_memo' = sort_memo \cup { [by |-> by, rows |-> rows, result |-> out] }
\* sort_values(by) of `rows` returns `out`
SortReturns(by, rows, out) == Sorted(by, rows, out) /\ Remember(by, rows, out)

allVars == <<df_levels, fill_rates, travel_times, c, all_drains, first>>

\* transform_level_data({}): json_normalize([{}]) is one row without columns
EmptyLevels == [index |-> <<0>>, columns |-> <<>>, data |-> <<>>]

\* the detect_all_drains state while another operation is modelled
AllIdle ==
    /\ df_levels = EmptyLevels /\ fill_rates = <<>> /\ travel_times = <<>>
    /\ c = 1 /\ all_drains = <<>> /\ first = NotComputed

fetchVars == <<_cache, cache_enabled, calls, requests, last_call, failed,
               in_flight>>

NoCall ==
    [id |-> 0, endpoint |-> "", use_cache |-> TRUE, outcome |-> "none",
     cache_at_entry |-> [e \in Endpoints |-> Absent],
     cache_before |-> [e \in Endpoints |-> Absent],
     result |-> FetchFailed, raised |-> FALSE]

\* the fetch state while another operation is modelled
FetchIdle ==
    /\ _cache = [e \in Endpoints |-> Absent] /\ cache_enabled = TRUE
    /\ calls = 0 /\ requests = [e \in Endpoints |-> 0] /\ last_call = NoCall
    /\ failed = {} /\ in_flight = <<>>

matchVars == <<tickets_data, df_tickets, df_drains, m, results, summary, patterns>>

\* the reconciliation state while another operation is modelled
MatchIdle ==
    /\ tickets_data = FetchFailed /\ df_tickets = EmptyFrame /\ df_drains = <<>>
    /\ m = 1 /\ results = <<>> /\ summary = NotComputed /\ patterns = NotComputed

\* the detector state while another operation is modelled
DetectIdle ==
    /\ series = <<>> /\ cauldron_id = "c1" /\ fill_rate = 1 /\ travel_time = 0
    /\ i = 1 /\ det = [in_drain |-> FALSE, drain_start |-> None,
                       drain_start_idx |-> None, peak_level |-> None,
                       drain_events |-> <<>>, closed |-> <<>>]

detVars == <<series, cauldron_id, fill_rate, travel_time, i, det>>

riskVars == <<df_cauldrons, df_fill_rates, df_overflow, df_priority, df_witch_perf,
              fill_estimates>>

\* the analytics state while another operation is modelled
RiskIdle ==
    /\ df_cauldrons = <<>> /\ df_fill_rates = <<>>
    /\ df_overflow = NotComputed /\ df_priority = NotComputed
    /\ df_witch_perf = NotComputed /\ fill_estimates = NotComputed

(***************************************************************************)
(* match_drains_to_tickets as one call.                                    *)
(***************************************************************************)
\* line 137: results = [], a list local to each call
InitialResults == <<>>

RECURSIVE MatchFrom(_, _, _)
MatchFrom(acc, drains, tickets) ==
    IF drains = <<>> THEN acc
    ELSE MatchFrom(Append(acc, MatchRow(Head(drains), TicketPool(tickets, acc))),
                   Tail(drains), tickets)

\* match_drains_to_tickets(df_drains, df_tickets): the rows returned, or
\* the KeyError of the first ticket lookup
match_drains_to_tickets(drains, tickets) ==
    IF drains # <<>> /\ TicketLookupRaises(tickets)
    THEN [raised |-> TRUE, rows |-> <<>>]
    ELSE [raised |-> FALSE, rows |-> MatchFrom(InitialResults, drains, tickets)]

(***************************************************************************)
(* Specification of one detect_drain_events call.                          *)
(***************************************************************************)
InitDetect ==
    /\ pc = "detect_entry"
    /\ series \in SeriesSet(Levels)
    /\ cauldron_id = "c1"
    /\ fill_rate \in FillRates
    /\ travel_time \in TravelTimes
    /\ i = 1
    /\ det = DetectorStart
    /\ MatchIdle
    /\ FetchIdle
    /\ sort_memo = {}
    /\ AllIdle
    /\ RiskIdle

\* lines 37-50: dropna, the length test, the loop variables
DetectEntry ==
    /\ pc = "detect_entry"
    /\ series' = dropna(series)
    /\ pc' = IF Len(dropna(series)) < 3 THEN "detect_done" ELSE "detect_loop"
    /\ UNCHANGED <<cauldron_id, fill_rate, travel_time, i, det>>
    /\ UNCHANGED matchVars
    /\ UNCHANGED fetchVars
    /\ UNCHANGED sort_memo
    /\ UNCHANGED allVars
    /\ UNCHANGED riskVars

\* NOT_DRAINING, sample not flagged: track the running peak
TrackPeak ==
    /\ pc = "detect_loop" /\ i <= Len(series)
    /\ ~det.in_drain /\ ~is_draining(series, i)
    /\ det' = LoopBody(series, i, det, cauldron_id, fill_rate, travel_time)
    /\ i' = i + 1
    /\ UNCHANGED <<pc, series, cauldron_id, fill_rate, travel_time>>
    /\ UNCHANGED matchVars
    /\ UNCHANGED fetchVars
    /\ UNCHANGED sort_memo
    /\ UNCHANGED allVars
    /\ UNCHANGED riskVars

\* NOT_DRAINING -> DRAINING on a flagged sample
StartDrain ==
    /\ pc = "detect_loop" /\ i <= Len(series)
    /\ ~det.in_drain /\ is_draining(series, i)
    /\ det' = LoopBody(series, i, det, cauldron_id, fill_rate, travel_time)
    /\ i' = i + 1
    /\ UNCHANGED <<pc, series, cauldron_id, fill_rate, travel_time>>
    /\ UNCHANGED matchVars
    /\ UNCHANGED fetchVars
    /\ UNCHANGED sort_memo
    /\ UNCHANGED allVars
    /\ UNCHANGED riskVars

\* DRAINING, sample flagged: nothing changes
ContinueDrain ==
    /\ pc = "detect_loop" /\ i <= Len(series)
    /\ det.in_drain /\ is_draining(series, i)
    /\ det' = LoopBody(series, i, det, cauldron_id, fill_rate, travel_time)
    /\ i' = i + 1
    /\ UNCHANGED <<pc, series, cauldron_id, fill_rate, travel_time>>
    /\ UNCHANGED matchVars
    /\ UNCHANGED fetchVars
    /\ UNCHANGED sort_memo
    /\ UNCHANGED allVars
    /\ UNCHANGED riskVars

\* DRAINING -> NOT_DRAINING on the first sample not flagged
CloseDrain ==
    /\ pc = "detect_loop" /\ i <= Len(series)
    /\ det.in_drain /\ ~is_draining(series, i)
    /\ det' = LoopBody(series, i, det, cauldron_id, fill_rate, travel_time)
    /\ i' = i + 1
    /\ UNCHANGED <<pc, series, cauldron_id, fill_rate, travel_time>>
    /\ UNCHANGED matchVars
    /\ UNCHANGED fetchVars
    /\ UNCHANGED sort_memo
    /\ UNCHANGED allVars
    /\ UNCHANGED riskVars

\* line 94: the loop is over, the events are returned
DetectReturn ==
    /\ pc = "detect_loop" /\ i > Len(series)
    /\ pc' = "detect_done"
    /\ UNCHANGED detVars
    /\ UNCHANGED matchVars
    /\ UNCHANGED fetchVars
    /\ UNCHANGED sort_memo
    /\ UNCHANGED allVars
    /\ UNCHANGED riskVars

NextDetect ==
    \/ DetectEntry
    \/ TrackPeak
    \/ StartDrain
    \/ ContinueDrain
    \/ CloseDrain
    \/ DetectReturn

SpecDetect == InitDetect /\ [][NextDetect]_vars

(***************************************************************************)
(* C1: every event emitted by detect_drain_events for a positive fill rate *)
(* has level_drop >= 20 and total_collected = level_drop + fill_rate *     *)
(* drain_duration_min > 0; a closed drain failing either test is not among *)
(* the emitted events.                                                     *)
(***************************************************************************)
IsEmittable(ev, fr) ==
    /\ ev.level_drop >= 20
    /\ ev.total_collected = ev.level_drop + fr * ev.drain_duration_min
    /\ ev.total_collected > 0

C1_EmittedEventsValid ==
    fill_rate > 0 =>
        /\ \A k \in DOMAIN det.drain_events : IsEmittable(det.drain_events[k], fill_rate)
        /\ \A k \in DOMAIN det.closed :
              ~IsEmittable(det.closed[k], fill_rate) =>
                  \A j \in DOMAIN det.drain_events : det.drain_events[j] # det.closed[k]

\* a positive-rate run that has emitted one drain and rejected another
C1_Witness ==
    /\ fill_rate > 0
    /\ Len(det.drain_events) >= 1
    /\ Len(det.closed) > Len(det.drain_events)

(***************************************************************************)
(* Specification of one reconciliation: transform_tickets, then            *)
(* match_drains_to_tickets drain by drain, then the reports.               *)
(***************************************************************************)
\* most drain events and most tickets of one reconciliation
MaxDrains == 2
MaxTickets == 2

DrainAmounts == {80, 100}
TicketAmounts == {78, 82, 98, 102}
\* tickets are stamped 10:00 on day 0 or day 1
TicketStamps == {600, 2040}
Couriers == <<"w1", "w2">>

\* drain events as detect_all_drains returns them: positive volumes, in
\* end_time order (23:10, 23:20, ... of day 0), tickets due on day 1
DrainRows(n) ==
    { [k \in 1..n |->
          [cauldron_id |-> cs[k],
           end_time |-> FirstTimestamp + 10 * k,
           date |-> date(FirstTimestamp + 10 * k),
           ticket_date |-> _calc_ticket_date(FirstTimestamp + 10 * k, 90),
           total_collected |-> as[k]]] :
      cs \in [1..n -> {"c1", "c2"}], as \in [1..n -> DrainAmounts] }

TicketKeys == {<<"c1", 2040>>, <<"c1", 600>>, <<"c2", 2040>>}

TicketRecords(n) ==
    { [k \in 1..n |->
          [ticket_id |-> k,
           cauldron_id |-> ks[k][1],
           date |-> ks[k][2],
           amount_collected |-> as[k],
           courier_id |-> Couriers[1 + (k % 2)]]] :
      ks \in [1..n -> TicketKeys], as \in [1..n -> TicketAmounts] }

InitMatch ==
    /\ pc = "transform"
    /\ tickets_data \in {FetchFailed}
                        \cup { Payload(r) : r \in UNION { TicketRecords(n) : n \in 0..MaxTickets } }
    /\ df_drains \in UNION { DrainRows(n) : n \in 0..MaxDrains }
    /\ df_tickets = EmptyFrame
    /\ m = 1 /\ results = <<>> /\ summary = NotComputed /\ patterns = NotComputed
    /\ DetectIdle
    /\ FetchIdle
    /\ sort_memo = {}
    /\ AllIdle
    /\ RiskIdle

\* df_tickets = transform_tickets(raw_data['tickets'])
TransformTickets ==
    /\ pc = "transform"
    /\ df_tickets' = transform_tickets(tickets_data)
    /\ pc' = "match_loop"
    /\ UNCHANGED <<tickets_data, df_drains, m, results, summary, patterns>>
    /\ UNCHANGED detVars
    /\ UNCHANGED fetchVars
    /\ UNCHANGED sort_memo
    /\ UNCHANGED allVars
    /\ UNCHANGED riskVars

\* a drain without candidate tickets: a NO_TICKET_FOUND row
MatchNoTicket ==
    /\ pc = "match_loop" /\ m <= Len(df_drains)
    /\ ~TicketLookupRaises(df_tickets)
    /\ Len(matching_tickets(df_drains[m], TicketPool(df_tickets, results))) = 0
    /\ results' = Append(results, MatchRow(df_drains[m], TicketPool(df_tickets, results)))
    /\ m' = m + 1
    /\ UNCHANGED <<pc, tickets_data, df_tickets, df_drains, summary, patterns>>
    /\ UNCHANGED detVars
    /\ UNCHANGED fetchVars
    /\ UNCHANGED sort_memo
    /\ UNCHANGED allVars
    /\ UNCHANGED riskVars

\* a drain with candidates: the nearest ticket, classified
MatchBest ==
    /\ pc = "match_loop" /\ m <= Len(df_drains)
    /\ ~TicketLookupRaises(df_tickets)
    /\ Len(matching_tickets(df_drains[m], TicketPool(df_tickets, results))) > 0
    /\ results' = Append(results, MatchRow(df_drains[m], TicketPool(df_tickets, results)))
    /\ m' = m + 1
    /\ UNCHANGED <<pc, tickets_data, df_tickets, df_drains, summary, patterns>>
    /\ UNCHANGED detVars
    /\ UNCHANGED fetchVars
    /\ UNCHANGED sort_memo
    /\ UNCHANGED allVars
    /\ UNCHANGED riskVars

\* the ticket frame has no 'cauldron_id' column: the lookup raises KeyError
MatchRaise ==
    /\ pc = "match_loop" /\ m <= Len(df_drains)
    /\ TicketLookupRaises(df_tickets)
    /\ pc' = "match_raised"
    /\ UNCHANGED matchVars
    /\ UNCHANGED fetchVars
    /\ UNCHANGED sort_memo
    /\ UNCHANGED allVars
    /\ UNCHANGED detVars
    /\ UNCHANGED fetchVars
    /\ UNCHANGED sort_memo
    /\ UNCHANGED allVars
    /\ UNCHANGED riskVars

\* the loop is over: pd.DataFrame(results) is returned
MatchReturn ==
    /\ pc = "match_loop" /\ m > Len(df_drains)
    /\ pc' = "match_done"
    /\ UNCHANGED matchVars
    /\ UNCHANGED detVars
    /\ UNCHANGED fetchVars
    /\ UNCHANGED sort_memo
    /\ UNCHANGED allVars
    /\ UNCHANGED riskVars

\* main.py line 61: get_system_summary; main() gets there only with drain
\* events, line 35 reads their total_collected column
SystemSummary ==
    /\ pc = "match_done" /\ Len(df_drains) > 0
    /\ summary' = get_system_summary(df_drains, df_tickets, results)
    /\ pc' = "summary_done"
    /\ UNCHANGED <<tickets_data, df_tickets, df_drains, m, results, patterns>>
    /\ UNCHANGED detVars
    /\ UNCHANGED fetchVars
    /\ UNCHANGED sort_memo
    /\ UNCHANGED allVars
    /\ UNCHANGED riskVars

\* get_suspicious_patterns(df_matched): main.py line 71 after the system
\* summary, load_data (frontend/data_loader.py line 54) without it
SuspiciousPatterns ==
    /\ pc \in {"match_done", "summary_done"}
    /\ \E sorted \in SortDesc(SuspiciousGroups(results)) :
          /\ IF Len(SuspiciousGroups(results)) = 0 THEN UNCHANGED sort_memo
             ELSE SortReturns("difference", SuspiciousGroups(results), sorted)
          /\ patterns' = IF Len(results) = 0 THEN EmptyDict
                         ELSE PatternsWith(results, sorted)
    /\ patterns' \in get_suspicious_patterns(results)
    /\ pc' = "reported"
    /\ UNCHANGED <<tickets_data, df_tickets, df_drains, m, results, summary>>
    /\ UNCHANGED detVars
    /\ UNCHANGED fetchVars
    /\ UNCHANGED allVars
    /\ UNCHANGED riskVars

NextMatch ==
    \/ TransformTickets
    \/ MatchNoTicket
    \/ MatchBest
    \/ MatchRaise
    \/ MatchReturn
    \/ SystemSummary
    \/ SuspiciousPatterns

SpecMatch == InitMatch /\ [][NextMatch]_vars

\* match_drains_to_tickets has ended, by returning or by raising
MatchEnded == pc \in {"match_done", "match_raised", "summary_done", "reported"}

RemoveAt(s, k) == SubSeq(s, 1, k - 1) \o SubSeq(s, k + 1, Len(s))

(***************************************************************************)
(* C2: match_drains_to_tickets returns exactly one result row per input    *)
(* drain event, in the order of the input drains, whatever the ticket      *)
(* table contains.                                                         *)
(***************************************************************************)
C2_OneRowPerDrain ==
    MatchEnded =>
        /\ Len(results) = Len(df_drains)
        /\ \A k \in DOMAIN results :
              /\ results[k].drain_id = <<df_drains[k].cauldron_id, df_drains[k].end_time>>
              /\ results[k].drain_amount = df_drains[k].total_collected

(***************************************************************************)
(* C3: every drain gets a result whose status is NO_TICKET_FOUND exactly   *)
(* when no ticket has the drain's cauldron and a date equal to the drain's *)
(* ticket_date; then ticket_id, ticket_amount and difference are None, and *)
(* otherwise all three are present.                                        *)
(***************************************************************************)
HasCandidate(drain, payload) ==
    \E k \in DOMAIN payload.records :
        /\ payload.records[k].cauldron_id = drain.cauldron_id
        /\ date(payload.records[k].date) = drain.ticket_date

C3_NoTicketIffNoCandidate ==
    MatchEnded =>
        \A k \in DOMAIN df_drains :
            /\ k \in DOMAIN results
            /\ (results[k].status = "NO_TICKET_FOUND")
                   <=> ~HasCandidate(df_drains[k], tickets_data)
            /\ IF results[k].status = "NO_TICKET_FOUND"
               THEN /\ results[k].ticket_id = None
                    /\ results[k].ticket_amount = None
                    /\ results[k].difference = None
               ELSE /\ results[k].ticket_id # None
                    /\ results[k].ticket_amount # None
                    /\ results[k].difference # None

(***************************************************************************)
(* C4: a drain with candidates is classified from pct_diff =               *)
(* |total_collected - amount| / total_collected * 100: MATCHED when        *)
(* pct_diff <= 2.0, otherwise UNDER_REPORTED when amount < total_collected,*)
(* otherwise OVER_REPORTED, with difference = amount - total_collected;    *)
(* 80 against a ticket of 78 is 2.5 %, UNDER_REPORTED, difference -2.      *)
(***************************************************************************)
ExpectedStatus(d, a) ==
    IF abs(d - a) * 100 <= 2 * d THEN "MATCHED"
    ELSE IF a < d THEN "UNDER_REPORTED" ELSE "OVER_REPORTED"

C4_Classification ==
    \A k \in DOMAIN results :
        LET r == results[k] IN
        r.ticket_id # None =>
            /\ r.status = ExpectedStatus(r.drain_amount, r.ticket_amount)
            /\ r.difference = r.ticket_amount - r.drain_amount
            /\ r.difference_pct[1] * r.drain_amount
                   = abs(r.drain_amount - r.ticket_amount) * 100 * r.difference_pct[2]
            /\ (r.drain_amount = 80 /\ r.ticket_amount = 78) =>
                   /\ r.difference_pct = <<5, 2>>
                   /\ r.status = "UNDER_REPORTED"
                   /\ r.difference = -2

\* the reconciliation example: 80 collected, ticket of 78
C4_Witness ==
    \E k \in DOMAIN results :
        /\ results[k].drain_amount = 80 /\ results[k].ticket_amount = 78
        /\ results[k].status = "UNDER_REPORTED"

(***************************************************************************)
(* C5: the tolerance boundary is inclusive: a selected ticket at exactly   *)
(* 2.0 % is MATCHED whether it is below or above the drain amount, and     *)
(* above 2.0 % the status is UNDER_REPORTED for a ticket below the drain   *)
(* amount and OVER_REPORTED for a ticket above it.                         *)
(***************************************************************************)
C5_ToleranceBoundary ==
    \A k \in DOMAIN results :
        LET r == results[k]
            pct == r.difference_pct
        IN  r.ticket_id # None =>
              /\ (pct[1] = 2 * pct[2]) => r.status = "MATCHED"
              /\ (pct[1] > 2 * pct[2] /\ r.ticket_amount < r.drain_amount)
                     => r.status = "UNDER_REPORTED"
              /\ (pct[1] > 2 * pct[2] /\ r.ticket_amount > r.drain_amount)
                     => r.status = "OVER_REPORTED"

\* both sides of the boundary at once: 98 and 102 against drains of 100
C5_Witness ==
    /\ \E k \in DOMAIN results :
          /\ results[k].drain_amount = 100 /\ results[k].ticket_amount = 98
          /\ results[k].status = "MATCHED"
    /\ \E k \in DOMAIN results :
          /\ results[k].drain_amount = 100 /\ results[k].ticket_amount = 102
          /\ results[k].status = "MATCHED"

(***************************************************************************)
(* C6: the full total_collected of every NO_TICKET_FOUND drain counts      *)
(* toward the unaccounted volume of get_suspicious_patterns and of the     *)
(* system summary: the reported totals exceed those of the same table      *)
(* without that row by the row's drain amount.                             *)
(***************************************************************************)
C6_NoTicketCountsInFull ==
    (pc = "reported" /\ summary # NotComputed) =>
        \A k \in DOMAIN results :
            results[k].status = "NO_TICKET_FOUND" =>
                /\ patterns.total_unaccounted
                       = total_unaccounted(RemoveAt(results, k)) + results[k].drain_amount
                /\ summary.total_unaccounted
                       = summary_unaccounted(RemoveAt(results, k)) + results[k].drain_amount

(***************************************************************************)
(* C7: when the ticket source resolved to an empty fetch result while      *)
(* drains were detected, no stage raises.                                  *)
(***************************************************************************)
C7_NoStageRaisesOnEmptyFetch ==
    tickets_data.failed => pc # "match_raised"

(***************************************************************************)
(* Specification of the fetch boundary: any sequence of fetch_api_data     *)
(* calls, each request ending as the network decides.                      *)
(***************************************************************************)
\* most fetch_api_data calls of one run
MaxCalls == 3

\* the bodies the server may answer with (the data may change between calls)
Bodies == {Payload(<<1>>), Payload(<<2>>)}

InitFetch ==
    /\ pc = "fetch"
    /\ _cache = [e \in Endpoints |-> Absent]
    /\ cache_enabled \in BOOLEAN
    /\ calls = 0
    /\ requests = [e \in Endpoints |-> 0]
    /\ last_call = NoCall
    /\ failed = {}
    /\ in_flight = <<>>
    /\ sort_memo = {}
    /\ DetectIdle
    /\ MatchIdle
    /\ AllIdle
    /\ RiskIdle

\* lines 20-21: fetch_api_data(endpoint, use_cache) answered from the cache
FetchCached(endpoint, use_cache) ==
    /\ pc = "fetch" /\ calls < MaxCalls
    /\ CacheHit(_cache, endpoint, use_cache)
    /\ last_call' = [id |-> calls + 1, endpoint |-> endpoint,
                     use_cache |-> use_cache, outcome |-> "cached",
                     cache_at_entry |-> _cache, cache_before |-> _cache,
                     result |-> _cache[endpoint].data, raised |-> FALSE]
    /\ calls' = calls + 1
    /\ UNCHANGED <<pc, _cache, cache_enabled, requests, failed, in_flight>>
    /\ UNCHANGED detVars
    /\ UNCHANGED matchVars
    /\ UNCHANGED allVars
    /\ UNCHANGED riskVars
    /\ UNCHANGED sort_memo

\* lines 20-25: the cache does not answer, the request is sent and the call
\* waits in requests.get; other threads run meanwhile
FetchRequest(endpoint, use_cache) ==
    /\ pc = "fetch" /\ calls < MaxCalls
    /\ ~CacheHit(_cache, endpoint, use_cache)
    /\ in_flight' = Append(in_flight, [id |-> calls + 1, endpoint |-> endpoint,
                                       use_cache |-> use_cache,
                                       cache_at_entry |-> _cache])
    /\ requests' = [requests EXCEPT ![endpoint] = @ + 1]
    /\ calls' = calls + 1
    /\ UNCHANGED <<pc, _cache, cache_enabled, last_call, failed>>
    /\ UNCHANGED detVars
    /\ UNCHANGED matchVars
    /\ UNCHANGED allVars
    /\ UNCHANGED riskVars
    /\ UNCHANGED sort_memo

\* the waiting calls without the k-th
Returned(k) == SubSeq(in_flight, 1, k - 1) \o SubSeq(in_flight, k + 1, Len(in_flight))

\* lines 25-29: the request of the k-th waiting call succeeds with `data`
FetchOk(k, data) ==
    /\ pc = "fetch" /\ k \in DOMAIN in_flight
    /\ LET call == in_flight[k]
           r == OnSuccess(_cache, cache_enabled, call.endpoint, data) IN
       /\ _cache' = r.cache
       /\ last_call' = [id |-> call.id, endpoint |-> call.endpoint,
                        use_cache |-> call.use_cache, outcome |-> "ok",
                        cache_at_entry |-> call.cache_at_entry,
                        cache_before |-> _cache,
                        result |-> r.result, raised |-> r.raised]
    /\ in_flight' = Returned(k)
    /\ UNCHANGED <<pc, cache_enabled, calls, requests, failed>>
    /\ UNCHANGED detVars
    /\ UNCHANGED matchVars
    /\ UNCHANGED allVars
    /\ UNCHANGED riskVars
    /\ UNCHANGED sort_memo

\* lines 25-32: the request of the k-th waiting call fails
FetchFail(k, outcome) ==
    /\ pc = "fetch" /\ k \in DOMAIN in_flight
    /\ outcome \in RequestException
    /\ LET call == in_flight[k]
           r == OnRequestException(_cache, call.endpoint) IN
       /\ _cache' = r.cache
       /\ last_call' = [id |-> call.id, endpoint |-> call.endpoint,
                        use_cache |-> call.use_cache, outcome |-> outcome,
                        cache_at_entry |-> call.cache_at_entry,
                        cache_before |-> _cache,
                        result |-> r.result, raised |-> r.raised]
       /\ failed' = failed \cup {[endpoint |-> call.endpoint, after |-> calls]}
    /\ in_flight' = Returned(k)
    /\ UNCHANGED <<pc, cache_enabled, calls, requests>>
    /\ UNCHANGED detVars
    /\ UNCHANGED matchVars
    /\ UNCHANGED allVars
    /\ UNCHANGED riskVars
    /\ UNCHANGED sort_memo

NextFetch ==
    \/ \E endpoint \in Endpoints, use_cache \in BOOLEAN :
           FetchCached(endpoint, use_cache)
    \/ \E endpoint \in Endpoints, use_cache \in BOOLEAN :
           FetchRequest(endpoint, use_cache)
    \/ \E k \in 1..MaxCalls, data \in Bodies : FetchOk(k, data)
    \/ \E k \in 1..MaxCalls, outcome \in RequestOutcomes : FetchFail(k, outcome)

SpecFetch == InitFetch /\ [][NextFetch]_vars

(***************************************************************************)
(* C8: a fetch_api_data call whose request fails (timeout, connection      *)
(* error, error HTTP status) propagates nothing, returns {} and leaves the *)
(* cache exactly as it was before the call.                                *)
(***************************************************************************)
C8_FailureReturnsEmptyCacheKept ==
    last_call.outcome \in {"timeout", "connection_error", "http_error"} =>
        /\ ~last_call.raised
        /\ last_call.result = FetchFailed
        /\ _cache = last_call.cache_before

\* a failed request for an endpoint while the cache already holds a value
C8_Witness ==
    /\ last_call.outcome = "timeout"
    /\ last_call.result = FetchFailed
    /\ \E e \in Endpoints : last_call.cache_before[e].present

(***************************************************************************)
(* Specification of one detect_all_drains call, column by column.          *)
(***************************************************************************)
\* most rows of the level table
MaxRows == 4

LevelColumns == <<"cauldron_levels.c1", "cauldron_levels.c2">>
\* samples every 30 minutes from 23:00
RowTimes(n) == [k \in 1..n |-> FirstTimestamp + 30 * (k - 1)]

\* level tables of n rows: c1 always reports, c2 may miss samples
LevelTables(n, lv1, lv2) ==
    { [index |-> RowTimes(n), columns |-> LevelColumns,
       data |-> [col \in {"cauldron_levels.c1", "cauldron_levels.c2"} |->
                    IF col = "cauldron_levels.c1" THEN a ELSE b]] :
      a \in [1..n -> lv1], b \in [1..n -> lv2] }

\* level tables of n rows with a column that is no cauldron's before c1
MixedTables(n, lv) ==
    { [index |-> RowTimes(n),
       columns |-> <<"potion_levels.c3", "cauldron_levels.c1">>,
       data |-> [col \in {"potion_levels.c3", "cauldron_levels.c1"} |->
                    IF col = "cauldron_levels.c1" THEN a ELSE b]] :
      a \in [1..n -> lv], b \in [1..n -> lv] }

\* fill-rate dicts: c1 with every kind of estimate, c2 estimated or absent,
\* and one with a rate for the column that is no cauldron's
FillRateDicts ==
    { [col \in {"cauldron_levels.c1"} |-> r] : r \in {NaN, 0, -1, 1} }
    \cup { [col \in {"cauldron_levels.c1", "cauldron_levels.c2"} |->
               IF col = "cauldron_levels.c1" THEN r ELSE 1] : r \in {NaN, 0, -1, 1} }
    \cup { [col \in {"cauldron_levels.c2"} |-> 1],
           [col \in {"cauldron_levels.c1", "potion_levels.c3"} |-> 1] }

TravelTimeDicts == { [id \in {"c1"} |-> 90], [id \in {"c1", "c2"} |-> 90] }

InitAll ==
    /\ pc = "all_loop"
    /\ \E n \in 0..MaxRows :
          df_levels \in LevelTables(n, {10, 30}, {10, 30, NaN}) \cup MixedTables(n, {10, 30})
    /\ fill_rates \in FillRateDicts
    /\ travel_times \in TravelTimeDicts
    /\ c = 1 /\ all_drains = <<>> /\ first = NotComputed
    /\ DetectIdle
    /\ MatchIdle
    /\ FetchIdle
    /\ sort_memo = {}
    /\ RiskIdle

\* lines 113-117: the cauldron's fill rate is missing, NaN or <= 0: continue
AllSkip ==
    /\ pc = "all_loop" /\ c <= Len(cauldron_cols(df_levels))
    /\ Unusable(get(fill_rates, cauldron_cols(df_levels)[c], NaN))
    /\ c' = c + 1
    /\ UNCHANGED <<pc, df_levels, fill_rates, travel_times, all_drains, first>>
    /\ UNCHANGED detVars
    /\ UNCHANGED matchVars
    /\ UNCHANGED fetchVars
    /\ UNCHANGED sort_memo
    /\ UNCHANGED riskVars

\* lines 119-120: the cauldron's events are appended to all_drains
AllDetect ==
    /\ pc = "all_loop" /\ c <= Len(cauldron_cols(df_levels))
    /\ ~Unusable(get(fill_rates, cauldron_cols(df_levels)[c], NaN))
    /\ all_drains' = Append(all_drains,
                            ColumnEvents(df_levels, cauldron_cols(df_levels)[c],
                                         fill_rates, travel_times))
    /\ c' = c + 1
    /\ UNCHANGED <<pc, df_levels, fill_rates, travel_times, first>>
    /\ UNCHANGED detVars
    /\ UNCHANGED matchVars
    /\ UNCHANGED fetchVars
    /\ UNCHANGED sort_memo
    /\ UNCHANGED riskVars

RECURSIVE Concat(_)
Concat(lists) == IF lists = <<>> THEN <<>> ELSE Head(lists) \o Concat(Tail(lists))

\* lines 122-124: the non-empty lists concatenated and sorted by end_time
AllReturn ==
    /\ pc = "all_loop" /\ c > Len(cauldron_cols(df_levels))
    /\ \E sorted \in sort_values_end_time(Concat(all_drains)) :
          /\ SortReturns("end_time", Concat(all_drains), sorted)
          /\ df_drains' = sorted
    /\ pc' = "all_done"
    /\ UNCHANGED <<tickets_data, df_tickets, m, results, summary, patterns>>
    /\ UNCHANGED allVars
    /\ UNCHANGED detVars
    /\ UNCHANGED fetchVars
    /\ UNCHANGED riskVars

NextAll ==
    \/ AllSkip
    \/ AllDetect
    \/ AllReturn

SpecAll == InitAll /\ [][NextAll]_vars

(***************************************************************************)
(* C10: detect_all_drains emits no event for a cauldron whose fill rate is *)
(* missing, NaN or <= 0, and the events of a cauldron with a positive fill *)
(* rate are those of its own series, whatever the other cauldrons are.     *)
(***************************************************************************)
EventsOf(evs, id) == SelectSeq(evs, LAMBDA ev : ev.cauldron_id = id)

HasPositiveRate(col) ==
    /\ col \in DOMAIN fill_rates
    /\ fill_rates[col] # NaN
    /\ fill_rates[col] > 0

C10_SkippedCauldronsEmitNothing ==
    pc = "all_done" =>
        \A k \in DOMAIN df_levels.columns :
            LET col == df_levels.columns[k]
                id == ColumnId(col)
            IN  IF HasPositiveRate(col) /\ IsCauldronColumn(col)
                THEN EventsOf(df_drains, id)
                         = detect_drain_events(ColumnSeries(df_levels, col), id,
                                               fill_rates[col],
                                               get(travel_times, id, 0))
                ELSE EventsOf(df_drains, id) = <<>>

\* c1 has a drain in its levels but a fill rate of 0, c2 is processed and
\* has an event
C10_Witness ==
    /\ pc = "all_done"
    /\ "cauldron_levels.c1" \in DOMAIN fill_rates
    /\ fill_rates["cauldron_levels.c1"] = 0
    /\ detect_drain_events(ColumnSeries(df_levels, "cauldron_levels.c1"), "c1", 1, 0) # <<>>
    /\ EventsOf(df_drains, "c2") # <<>>

(***************************************************************************)
(* C11: the table returned by detect_all_drains holds exactly the events   *)
(* of the processed cauldrons, each as often as it was detected, and its   *)
(* rows are in non-decreasing end_time order.                              *)
(***************************************************************************)
Count(s, x) == Len(SelectSeq(s, LAMBDA y : y = x))

C11_AllEventsSortedByEndTime ==
    pc = "all_done" =>
        /\ Len(df_drains) = Len(Concat(all_drains))
        /\ \A k \in DOMAIN df_drains :
              Count(df_drains, df_drains[k]) = Count(Concat(all_drains), df_drains[k])
        /\ \A k \in 1..(Len(df_drains) - 1) :
              df_drains[k].end_time <= df_drains[k + 1].end_time

\* both cauldrons were processed and the first one's drain ends after the
\* second one's, so the concatenation is not in end_time order
C11_Witness ==
    /\ pc = "all_done"
    /\ Len(all_drains) = 2
    /\ all_drains[1] # <<>> /\ all_drains[2] # <<>>
    /\ all_drains[1][1].end_time > all_drains[2][1].end_time
    /\ df_drains[1].cauldron_id = "c2"

(***************************************************************************)
(* C9 (a second run of detect_all_drains and match_drains_to_tickets on    *)
(* the same tables returns the same rows in the same order) is not stated  *)
(* as a property: both are functions of their arguments, results = [] and  *)
(* all_drains = [] are set at every call and no table is changed in place, *)
(* so two evaluations agree by the definitions alone.                      *)
(***************************************************************************)
\* a ticket record of the API
TicketRow(k, cid, stamp, amount) ==
    [ticket_id |-> k, cauldron_id |-> cid, date |-> stamp,
     amount_collected |-> amount, courier_id |-> Couriers[1 + (k % 2)]]

(***************************************************************************)
(* One run of detection and reconciliation: the tickets are transformed,   *)
(* the drains detected and reconciled.                                     *)
(***************************************************************************)
\* df_tickets = transform_tickets(raw_data['tickets'])
RunTransform ==
    /\ pc = "run_transform"
    /\ df_tickets' = transform_tickets(tickets_data)
    /\ pc' = "run_detect"
    /\ UNCHANGED <<tickets_data, df_drains, m, results, summary, patterns>>
    /\ UNCHANGED allVars
    /\ UNCHANGED detVars
    /\ UNCHANGED fetchVars
    /\ UNCHANGED sort_memo
    /\ UNCHANGED riskVars

\* df_drain_events = detect_all_drains(df_levels, fill_rates, travel_times)
RunDetect ==
    /\ pc = "run_detect"
    /\ \E sorted \in detect_all_drains(df_levels, fill_rates, travel_times) :
          /\ SortReturns("end_time", AllEvents(df_levels, fill_rates, travel_times),
                         sorted)
          /\ df_drains' = sorted
    /\ pc' = "run_match"
    /\ UNCHANGED <<tickets_data, df_tickets, m, results, summary, patterns>>
    /\ UNCHANGED allVars
    /\ UNCHANGED detVars
    /\ UNCHANGED fetchVars
    /\ UNCHANGED riskVars

\* df_matched = match_drains_to_tickets(df_drain_events, df_tickets)
RunMatch ==
    /\ pc = "run_match"
    /\ LET r == match_drains_to_tickets(df_drains, df_tickets) IN
       /\ results' = r.rows
       /\ pc' = IF r.raised THEN "match_raised" ELSE "run_end"
    /\ UNCHANGED <<tickets_data, df_tickets, df_drains, m, summary, patterns>>
    /\ UNCHANGED allVars
    /\ UNCHANGED detVars
    /\ UNCHANGED fetchVars
    /\ UNCHANGED sort_memo
    /\ UNCHANGED riskVars

NextRun ==
    \/ RunTransform
    \/ RunDetect
    \/ RunMatch

(***************************************************************************)
(* Specification of detection followed by reconciliation over an evening:  *)
(* levels sampled every 30 minutes from 22:30, so that drains end before   *)
(* and at midnight, with tickets dated the same day and the next day.      *)
(***************************************************************************)
EveningStart == 22 * 60 + 30

EveningTables(n) ==
    { [t EXCEPT !.index = [k \in 1..n |-> EveningStart + 30 * (k - 1)]] :
      t \in LevelTables(n, {10, 30}, {10, 30}) }

\* travel-time maps: each cauldron may be absent from the map
EveningTravelTimes ==
    { [id \in {"c1"} |-> 90], [id \in {"c2"} |-> 90], [id \in {"c1", "c2"} |-> 90] }

\* tickets of day 0 (10:00) and of day 1 (10:00) for both cauldrons
EveningTickets ==
    { Payload(<<TicketRow(1, "c1", 600, 50), TicketRow(2, "c1", 2040, 50),
                TicketRow(3, "c2", 600, 50), TicketRow(4, "c2", 2040, 50)>>),
      Payload(<<TicketRow(1, "c1", 600, 50), TicketRow(2, "c2", 600, 50)>>),
      Payload(<<TicketRow(1, "c1", 2040, 50), TicketRow(2, "c2", 2040, 50)>>) }

InitEvening ==
    /\ pc = "run_transform"
    /\ df_levels \in UNION { EveningTables(n) : n \in 0..MaxRows }
    /\ fill_rates = [col \in {"cauldron_levels.c1", "cauldron_levels.c2"} |-> 1]
    /\ travel_times \in EveningTravelTimes
    /\ tickets_data \in EveningTickets
    /\ df_tickets = EmptyFrame /\ df_drains = <<>>
    /\ m = 1 /\ results = <<>> /\ summary = NotComputed /\ patterns = NotComputed
    /\ c = 1 /\ all_drains = <<>> /\ first = NotComputed
    /\ DetectIdle
    /\ FetchIdle
    /\ sort_memo = {}
    /\ RiskIdle

SpecEvening == InitEvening /\ [][NextRun]_vars

(***************************************************************************)
(* C12: every drain event's ticket_date is the calendar date of end_time   *)
(* plus the cauldron's travel time (0 when the cauldron is absent from the *)
(* travel-time map), and the drain is matched only against tickets of that *)
(* date: a drain ending before midnight whose travel crosses midnight gets *)
(* a ticket of the next day or none.                                       *)
(***************************************************************************)
TicketById(payload, id) ==
    CHOOSE t \in { payload.records[k] : k \in DOMAIN payload.records } : t.ticket_id = id

ExpectedTicketDate(drain) ==
    (drain.end_time
        + (IF drain.cauldron_id \in DOMAIN travel_times
           THEN travel_times[drain.cauldron_id] ELSE 0)) \div MinutesPerDay

C12_TicketDateFollowsTravel ==
    pc = "run_end" =>
        /\ Len(results) = Len(df_drains)
        /\ \A k \in DOMAIN df_drains :
              /\ df_drains[k].ticket_date = ExpectedTicketDate(df_drains[k])
              /\ results[k].ticket_date = ExpectedTicketDate(df_drains[k])
              /\ results[k].ticket_id # None =>
                    TicketById(tickets_data, results[k].ticket_id).date \div MinutesPerDay
                        = ExpectedTicketDate(df_drains[k])
              /\ results[k].ticket_id = None =>
                    ~\E j \in DOMAIN tickets_data.records :
                        /\ tickets_data.records[j].cauldron_id = df_drains[k].cauldron_id
                        /\ tickets_data.records[j].date \div MinutesPerDay
                               = ExpectedTicketDate(df_drains[k])

\* a drain ends at 23:30 of day 0, its travel time of 90 minutes crosses
\* midnight, a ticket of day 0 exists for the cauldron, and the drain got
\* the ticket of day 1
C12_Witness ==
    /\ pc = "run_end"
    /\ \E k \in DOMAIN df_drains :
          /\ df_drains[k].end_time < MinutesPerDay
          /\ df_drains[k].cauldron_id \in DOMAIN travel_times
          /\ df_drains[k].ticket_date = 1
          /\ results[k].ticket_id # None
          /\ TicketById(tickets_data, results[k].ticket_id).date = 2040
          /\ \E j \in DOMAIN tickets_data.records :
                /\ tickets_data.records[j].cauldron_id = df_drains[k].cauldron_id
                /\ tickets_data.records[j].date = 600

(***************************************************************************)
(* Overflow risk and collection priority (src/backend/analytics.py).       *)
(* A fill rate is a fraction <<n, d>> in L/min; hours, percentages and     *)
(* scores are fractions as well.  <<0, 0>> is the NaN of a fraction: it    *)
(* is below nothing and nothing is below it, as every comparison with NaN  *)
(* is False.                                                               *)
(***************************************************************************)
RateNaN == <<0, 0>>
rate_isnan(r) == r[2] = 0

\* df_levels[cauldron_col].iloc[-1]
iloc_last(levels, col) == levels.data[col][Len(levels.index)]

\* df_fill_rates[df_fill_rates['cauldron'] == cauldron_col]; a table without
\* rows is pd.DataFrame([]), which has no column: the lookup raises KeyError
fill_rate_data(rates_table, col) ==
    IF rates_table = <<>> THEN [raised |-> TRUE, rows |-> <<>>]
    ELSE [raised |-> FALSE, rows |-> SelectSeq(rates_table, LAMBDA r : r.cauldron = col)]

\* line 48: the risk level of a number of hours; NaN hours are below neither
\* bound and come out LOW
RiskLevel(hours) ==
    IF FracLess(hours, <<12, 1>>) THEN "HIGH"
    ELSE IF FracLess(hours, <<24, 1>>) THEN "MEDIUM" ELSE "LOW"

\* lines 36-49: the row appended for an eligible cauldron; a NaN
\* current_level (the last row has no reading) makes remaining_capacity,
\* hours_to_overflow and utilization_pct NaN
OverflowRow(id, max_volume, current_level, rate) ==
    LET remaining == IF isnan(current_level) THEN NaN
                     ELSE max_volume - current_level
        hours_to_overflow == IF isnan(remaining) THEN RateNaN
                             ELSE Frac(remaining * rate[2], rate[1] * 60)
    IN  [cauldron_id |-> id,
         current_level |-> current_level,
         max_volume |-> max_volume,
         remaining_capacity |-> remaining,
         utilization_pct |-> IF isnan(current_level) THEN RateNaN
                             ELSE Frac(current_level * 100, max_volume),
         fill_rate_per_hour |-> Frac(rate[1] * 60, rate[2]),
         hours_to_overflow |-> hours_to_overflow,
         risk_level |-> RiskLevel(hours_to_overflow)]

\* lines 26-27: the cauldron has a level column
HasLevelColumn(cauldron, levels) ==
    \E k \in DOMAIN levels.columns :
        levels.columns[k] = "cauldron_levels." \o cauldron.id

\* lines 29-30 raise for a cauldron with a level column: IndexError of
\* iloc[-1] on a table without rows, KeyError of df_fill_rates['cauldron']
OverflowRaises(cauldron, levels, rates_table) ==
    /\ HasLevelColumn(cauldron, levels)
    /\ \/ Len(levels.index) = 0
       \/ fill_rate_data(rates_table, "cauldron_levels." \o cauldron.id).raised

\* lines 21-49: one iteration of `for _, cauldron in df_cauldrons.iterrows()`
\* that does not raise: the rows appended
OverflowRows(cauldron, levels, rates_table) ==
    LET col == "cauldron_levels." \o cauldron.id
        mine == fill_rate_data(rates_table, col).rows
    IN  IF ~HasLevelColumn(cauldron, levels) THEN <<>>
        ELSE IF Len(mine) = 0 THEN <<>>
        ELSE LET rate == mine[1].fill_rate_per_min IN
             IF ~isnan(cauldron.max_volume) /\ ~rate_isnan(rate) /\ rate[1] > 0
             THEN <<OverflowRow(cauldron.id, cauldron.max_volume,
                                iloc_last(levels, col), rate)>>
             ELSE <<>>

RECURSIVE OverflowAnalysis(_, _, _)
OverflowAnalysis(levels, cauldrons, rates_table) ==
    IF cauldrons = <<>> THEN <<>>
    ELSE OverflowRows(Head(cauldrons), levels, rates_table)
         \o OverflowAnalysis(levels, Tail(cauldrons), rates_table)

\* calculate_overflow_risk(df_levels, df_cauldrons, df_fill_rates): the rows
\* returned, or the exception of the first cauldron that raises
calculate_overflow_risk(levels, cauldrons, rates_table) ==
    IF \E k \in DOMAIN cauldrons : OverflowRaises(cauldrons[k], levels, rates_table)
    THEN [raised |-> TRUE, rows |-> <<>>]
    ELSE [raised |-> FALSE, rows |-> OverflowAnalysis(levels, cauldrons, rates_table)]

\* lines 110-113: hours left once travel, collection and buffer are spent
EffectiveHours(hours, travel) ==
    IF rate_isnan(hours) THEN RateNaN
    ELSE Frac(hours[1] * 60 - (travel + 15 + 15) * hours[2], 60 * hours[2])

\* lines 115-129: the priority bucket; NaN hours fail every test and reach
\* the else branch
Priority_SixIsUrgent(eff) ==
    IF FracLess(eff, <<0, 1>>) THEN "CRITICAL - OVERDUE"
    ELSE IF ~FracLess(<<6, 1>>, eff) THEN "URGENT"
    ELSE IF FracLess(eff, <<12, 1>>) THEN "HIGH"
    ELSE IF FracLess(eff, <<24, 1>>) THEN "MEDIUM"
    ELSE "LOW"
Priority(eff) ==
    IF FracLess(eff, <<0, 1>>) THEN "CRITICAL - OVERDUE"
    ELSE IF FracLess(eff, <<6, 1>>) THEN "URGENT"
    ELSE IF FracLess(eff, <<12, 1>>) THEN "HIGH"
    ELSE IF FracLess(eff, <<24, 1>>) THEN "MEDIUM"
    ELSE "LOW"

\* lines 115-129: the urgency score; 10 / NaN is NaN
UrgencyScore_FloorHundredth(eff) ==
    IF rate_isnan(eff) THEN RateNaN
    ELSE IF FracLess(eff, <<0, 1>>) THEN <<1000, 1>>
    ELSE IF FracLess(eff, <<6, 1>>)
         THEN IF FracLess(eff, <<1, 100>>) THEN <<10000, 1>>
              ELSE Frac(100 * eff[2], eff[1])
    ELSE IF FracLess(eff, <<12, 1>>) THEN Frac(50 * eff[2], eff[1])
    ELSE IF FracLess(eff, <<24, 1>>) THEN Frac(20 * eff[2], eff[1])
    ELSE Frac(10 * eff[2], eff[1])
UrgencyScore(eff) ==
    IF rate_isnan(eff) THEN RateNaN
    ELSE IF FracLess(eff, <<0, 1>>) THEN <<1000, 1>>
    ELSE IF FracLess(eff, <<6, 1>>)
         THEN IF FracLess(eff, <<1, 10>>) THEN <<1000, 1>>
              ELSE Frac(100 * eff[2], eff[1])
    ELSE IF FracLess(eff, <<12, 1>>) THEN Frac(50 * eff[2], eff[1])
    ELSE IF FracLess(eff, <<24, 1>>) THEN Frac(20 * eff[2], eff[1])
    ELSE Frac(10 * eff[2], eff[1])

\* lines 105-140: the row of one cauldron
PriorityRow(row, travel_map) ==
    LET travel == get(travel_map, row.cauldron_id, 0)
        eff == EffectiveHours(row.hours_to_overflow, travel)
    IN  [cauldron_id |-> row.cauldron_id,
         current_level |-> row.current_level,
         max_volume |-> row.max_volume,
         hours_to_overflow |-> row.hours_to_overflow,
         travel_time_min |-> travel,
         effective_hours |-> eff,
         priority |-> Priority(eff),
         urgency_score |-> UrgencyScore(eff)]

\* the place of the k-th fraction among fs: how many are below it
FracRank(fs, k) == Cardinality({ j \in DOMAIN fs : FracLess(fs[j], fs[k]) })

\* line 144: sort_values('urgency_score', ascending=False): the tables it
\* may return; rows with a NaN score come last (na_position='last')
sort_values_urgency_desc(rows) ==
    LET scores == [k \in DOMAIN rows |-> rows[k].urgency_score]
    IN  { Take(rows, p) :
            p \in ArgSorts([k \in DOMAIN rows |->
                               IF rate_isnan(scores[k]) THEN 1
                               ELSE -FracRank(scores, k)], DOMAIN rows) }

\* lines 104-140: priority_list
PriorityRows(overflow, travel_map) ==
    [k \in DOMAIN overflow |-> PriorityRow(overflow[k], travel_map)]

\* get_overflow_priority(df_overflow, travel_times): the tables it may return
get_overflow_priority(overflow, travel_map) ==
    IF Len(overflow) = 0 THEN { <<>> }
    ELSE sort_values_urgency_desc(PriorityRows(overflow, travel_map))

(***************************************************************************)
(* Specification of the overflow analytics: calculate_overflow_risk, then  *)
(* get_overflow_priority.                                                  *)
(***************************************************************************)
\* most rows of the level table
MaxLevelRows == 2

\* latest levels: with 1000 L of capacity and 0.5 L/min they are 2, 8, 10/3,
\* 12, 14, 24 and 26 hours from overflowing; NaN is a last row without a
\* reading for the cauldron
LatestLevels == {940, 900, 760, 640, 580, 280, 220, NaN}

\* level tables of n rows whose last row holds the latest levels; every
\* earlier row reads 100
RiskTables(n) ==
    { [index |-> RowTimes(n), columns |-> LevelColumns,
       data |-> [col \in {"cauldron_levels.c1", "cauldron_levels.c2"} |->
                    [k \in 1..n |-> IF k < n THEN 100
                                    ELSE IF col = "cauldron_levels.c1" THEN a ELSE b]]] :
      a \in LatestLevels, b \in LatestLevels }

\* cauldron tables: max_volume present or missing; c3 has no level column
CauldronTables ==
    { <<[id |-> "c1", max_volume |-> v], [id |-> "c2", max_volume |-> w]>> :
          v \in {1000, NaN}, w \in {1000, NaN} }
    \cup { <<[id |-> "c3", max_volume |-> 1000], [id |-> "c1", max_volume |-> 1000]>>,
           <<>> }

\* fill-rate tables: c1 with every kind of estimate or none, c2 at 1 or
\* 0.5 L/min
RateTables ==
    { <<[cauldron |-> "cauldron_levels.c1", fill_rate_per_min |-> r],
        [cauldron |-> "cauldron_levels.c2", fill_rate_per_min |-> q]>> :
          r \in {<<1, 2>>, <<1, 1>>, <<0, 1>>, <<-1, 1>>, RateNaN},
          q \in {<<1, 1>>, <<1, 2>>} }
    \cup { <<[cauldron |-> "cauldron_levels.c2", fill_rate_per_min |-> <<1, 1>>]>> }

InitRisk ==
    /\ pc = "overflow"
    /\ df_levels \in UNION { RiskTables(n) : n \in 1..MaxLevelRows }
    /\ df_cauldrons \in CauldronTables
    /\ df_fill_rates \in RateTables
    /\ travel_times \in { [id \in {"c1"} |-> 90], [id \in {"c2"} |-> 90] }
    /\ fill_rates = <<>>
    /\ c = 1 /\ all_drains = <<>> /\ first = NotComputed
    /\ df_overflow = NotComputed /\ df_priority = NotComputed
    /\ df_witch_perf = NotComputed /\ fill_estimates = NotComputed
    /\ DetectIdle
    /\ MatchIdle
    /\ FetchIdle
    /\ sort_memo = {}

\* df_overflow = calculate_overflow_risk(df_levels, df_cauldrons,
\* df_fill_rates) in load_data
OverflowRisk ==
    /\ pc = "overflow"
    /\ LET r == calculate_overflow_risk(df_levels, df_cauldrons, df_fill_rates) IN
       /\ df_overflow' = IF r.raised THEN df_overflow ELSE r.rows
       /\ pc' = IF r.raised THEN "overflow_raised" ELSE "priority"
    /\ UNCHANGED <<df_cauldrons, df_fill_rates, df_priority, df_witch_perf, fill_estimates>>
    /\ UNCHANGED allVars
    /\ UNCHANGED detVars
    /\ UNCHANGED matchVars
    /\ UNCHANGED fetchVars
    /\ UNCHANGED sort_memo

\* get_overflow_priority, lines 101-102: nothing to rank
PriorityEmpty ==
    /\ pc = "priority" /\ Len(df_overflow) = 0
    /\ df_priority' = <<>>
    /\ pc' = "priority_done"
    /\ UNCHANGED <<df_cauldrons, df_fill_rates, df_overflow, df_witch_perf, fill_estimates>>
    /\ UNCHANGED allVars
    /\ UNCHANGED detVars
    /\ UNCHANGED matchVars
    /\ UNCHANGED fetchVars
    /\ UNCHANGED sort_memo

\* get_overflow_priority, lines 104-145: the ranked list
PriorityRank ==
    /\ pc = "priority" /\ Len(df_overflow) > 0
    /\ \E sorted \in get_overflow_priority(df_overflow, travel_times) :
          /\ SortReturns("urgency_score", PriorityRows(df_overflow, travel_times),
                         sorted)
          /\ df_priority' = sorted
    /\ pc' = "priority_done"
    /\ UNCHANGED <<df_cauldrons, df_fill_rates, df_overflow, df_witch_perf, fill_estimates>>
    /\ UNCHANGED allVars
    /\ UNCHANGED detVars
    /\ UNCHANGED matchVars
    /\ UNCHANGED fetchVars

NextRisk ==
    \/ OverflowRisk
    \/ PriorityEmpty
    \/ PriorityRank

SpecRisk == InitRisk /\ [][NextRisk]_vars

(***************************************************************************)
(* C13: for each cauldron with a max_volume and a positive fill rate,      *)
(* calculate_overflow_risk uses the latest observed level of the cauldron  *)
(* and reports hours_to_overflow = ((max_volume - latest level) /          *)
(* fill_rate_per_min) / 60 with risk_level HIGH iff it is below 12, MEDIUM *)
(* iff in [12, 24), LOW otherwise; cauldrons lacking a max_volume or a     *)
(* positive fill rate are excluded.                                        *)
(***************************************************************************)
OverflowComputed == pc \in {"priority", "priority_done"}

\* the cauldron has a level column, a max_volume and a positive fill rate
Scored(cauldron) ==
    /\ \E k \in DOMAIN df_levels.columns :
          df_levels.columns[k] = "cauldron_levels." \o cauldron.id
    /\ cauldron.max_volume # NaN
    /\ \E k \in DOMAIN df_fill_rates :
          /\ df_fill_rates[k].cauldron = "cauldron_levels." \o cauldron.id
          /\ df_fill_rates[k].fill_rate_per_min[2] > 0
          /\ df_fill_rates[k].fill_rate_per_min[1] > 0

RateOf(id) ==
    (CHOOSE r \in { df_fill_rates[k] : k \in DOMAIN df_fill_rates } :
        r.cauldron = "cauldron_levels." \o id).fill_rate_per_min

\* the readings of the cauldron, and the latest of them
Observed(id) == dropna(ColumnSeries(df_levels, "cauldron_levels." \o id))
LatestObserved(id) == Observed(id)[Len(Observed(id))].level

C13_OverflowRisk ==
    OverflowComputed =>
        \A k \in DOMAIN df_cauldrons :
            LET cauldron == df_cauldrons[k]
                rows == SelectSeq(df_overflow, LAMBDA r : r.cauldron_id = cauldron.id)
            IN  IF Scored(cauldron)
                THEN /\ Len(rows) = 1
                     /\ Len(Observed(cauldron.id)) > 0 =>
                         LET h == rows[1].hours_to_overflow
                             rate == RateOf(cauldron.id)
                             latest == LatestObserved(cauldron.id)
                         IN  /\ h[2] > 0
                             /\ rows[1].current_level = latest
                             \* h = ((max_volume - latest) / rate) / 60
                             /\ h[1] * rate[1] * 60
                                    = (cauldron.max_volume - latest) * rate[2] * h[2]
                             /\ (rows[1].risk_level = "HIGH") <=> (h[1] < 12 * h[2])
                             /\ (rows[1].risk_level = "MEDIUM")
                                    <=> (12 * h[2] <= h[1] /\ h[1] < 24 * h[2])
                             /\ (rows[1].risk_level = "LOW") <=> (24 * h[2] <= h[1])
                ELSE Len(rows) = 0

(***************************************************************************)
(* C14: get_overflow_priority gives every cauldron of the overflow table   *)
(* exactly one bucket from effective_hours = hours_to_overflow -           *)
(* (travel_time + 30) / 60: below 0 CRITICAL - OVERDUE with score 1000;    *)
(* [0, 6) URGENT with 100 / max(effective_hours, 0.1); [6, 12) HIGH with   *)
(* 50 / effective_hours; [12, 24) MEDIUM with 20 / effective_hours; from   *)
(* 24 LOW with 10 / effective_hours; the list is in descending score.      *)
(***************************************************************************)
\* the score s equals n / e
ScoreIs(s, n, e) == s[2] > 0 /\ s[1] * e[1] = n * e[2] * s[2]

BucketOf(row) ==
    LET e == row.effective_hours
        s == row.urgency_score
    IN  IF rate_isnan(e)
        \* hours that are not a number are in no interval: the row is LOW
        \* and its score 10 / effective_hours is not a number either
        THEN row.priority = "LOW" /\ rate_isnan(s)
        ELSE
        /\ e[2] > 0
        /\ (e[1] < 0) =>
              row.priority = "CRITICAL - OVERDUE" /\ s = <<1000, 1>>
        /\ (0 <= e[1] /\ e[1] < 6 * e[2]) =>
              /\ row.priority = "URGENT"
              /\ IF 10 * e[1] < e[2] THEN s = <<1000, 1>> ELSE ScoreIs(s, 100, e)
        /\ (6 * e[2] <= e[1] /\ e[1] < 12 * e[2]) =>
              row.priority = "HIGH" /\ ScoreIs(s, 50, e)
        /\ (12 * e[2] <= e[1] /\ e[1] < 24 * e[2]) =>
              row.priority = "MEDIUM" /\ ScoreIs(s, 20, e)
        /\ (24 * e[2] <= e[1]) =>
              row.priority = "LOW" /\ ScoreIs(s, 10, e)

C14_PriorityBuckets ==
    pc = "priority_done" =>
        /\ Len(df_priority) = Len(df_overflow)
        /\ \A k \in DOMAIN df_overflow :
              LET rows == SelectSeq(df_priority,
                                    LAMBDA r : r.cauldron_id = df_overflow[k].cauldron_id)
                  h == df_overflow[k].hours_to_overflow
                  travel == IF df_overflow[k].cauldron_id \in DOMAIN travel_times
                            THEN travel_times[df_overflow[k].cauldron_id] ELSE 0
              IN  /\ Len(rows) = 1
                  \* effective_hours = hours_to_overflow - (travel + 30) / 60
                  /\ rows[1].effective_hours[1] * 60 * h[2]
                         = (h[1] * 60 - (travel + 30) * h[2]) * rows[1].effective_hours[2]
                  /\ BucketOf(rows[1])
        \* descending scores, the rows without a score last
        /\ \A j \in DOMAIN df_priority : \A k \in DOMAIN df_priority :
              j < k =>
                  /\ ~FracLess(df_priority[j].urgency_score,
                               df_priority[k].urgency_score)
                  /\ rate_isnan(df_priority[j].urgency_score)
                         => rate_isnan(df_priority[k].urgency_score)

\* the first cauldron has exactly 6 effective hours (HIGH, score 50/6), the
\* second is URGENT with a higher score and is ranked first
C14_Witness ==
    /\ pc = "priority_done"
    /\ Len(df_priority) = 2
    /\ df_overflow[1].cauldron_id = "c1"
    /\ df_priority[1].cauldron_id = "c2"
    /\ df_priority[1].priority = "URGENT"
    /\ df_priority[2].effective_hours = <<6, 1>>
    /\ df_priority[2].priority = "HIGH"
    /\ df_priority[2].urgency_score = <<25, 3>>

(***************************************************************************)
(* get_witch_performance (src/backend/reporting.py): per-courier metrics.  *)
(* Means and scores are fractions with a positive denominator.             *)
(***************************************************************************)
\* df_tickets['courier_id'].unique(): the couriers in order of appearance
RECURSIVE unique(_)
unique(xs) ==
    IF xs = <<>> THEN <<>>
    ELSE LET before == unique(SubSeq(xs, 1, Len(xs) - 1))
             x == xs[Len(xs)]
         IN  IF \E k \in DOMAIN before : before[k] = x THEN before
             ELSE Append(before, x)

\* lines 65-66: the result rows whose ticket belongs to the courier
courier_matches_CountsMissing(matched, tickets, courier_id) ==
    LET ids == { tickets[k].ticket_id : k \in { j \in DOMAIN tickets :
                                                  tickets[j].courier_id = courier_id } }
    IN  SelectSeq(matched, LAMBDA r : r.ticket_id \in ids \cup {None})
courier_matches(matched, tickets, courier_id) ==
    LET ids == { tickets[k].ticket_id : k \in { j \in DOMAIN tickets :
                                                  tickets[j].courier_id = courier_id } }
    IN  SelectSeq(matched, LAMBDA r : r.ticket_id \in ids)

FracMax(p, q) == IF FracLess(p, q) THEN q ELSE p
FracMin(p, q) == IF FracLess(q, p) THEN q ELSE p

\* lines 76-77: trust_score from the mean difference and the suspicious count
TrustScore_NoFloor(avg_discrepancy, suspicious_count) ==
    FracMin(<<100, 1>>,
            Frac(100 * avg_discrepancy[2] - 5 * abs(avg_discrepancy[1])
                     - 10 * suspicious_count * avg_discrepancy[2],
                 avg_discrepancy[2]))
TrustScore_CountsOnly(avg_discrepancy, suspicious_count) ==
    FracMin(<<100, 1>>, FracMax(<<0, 1>>, <<100 - 10 * suspicious_count, 1>>))
TrustScore(avg_discrepancy, suspicious_count) ==
    FracMin(<<100, 1>>,
            FracMax(<<0, 1>>,
                    Frac(100 * avg_discrepancy[2] - 5 * abs(avg_discrepancy[1])
                             - 10 * suspicious_count * avg_discrepancy[2],
                         avg_discrepancy[2])))

\* line 79
TrustRisk(trust_score) ==
    IF FracLess(trust_score, <<40, 1>>) THEN "HIGH RISK"
    ELSE IF FracLess(trust_score, <<70, 1>>) THEN "MODERATE" ELSE "RELIABLE"

\* lines 71-89: the metrics of one courier
CourierMetrics(courier_id, mine) ==
    LET avg_discrepancy == Frac(SeqSum(Column(mine, "difference")), Len(mine))
        suspicious_count == Len(SelectSeq(mine, IsSuspicious))
        trust_score == TrustScore(avg_discrepancy, suspicious_count)
    IN  [courier_id |-> courier_id,
         total_collections |-> Len(mine),
         matched_tickets |-> Len(SelectSeq(mine, LAMBDA r : r.status = "MATCHED")),
         suspicious_tickets |-> suspicious_count,
         avg_discrepancy |-> avg_discrepancy,
         trust_score |-> trust_score,
         risk_level |-> TrustRisk(trust_score)]

RECURSIVE CourierRows(_, _, _)
CourierRows(matched, tickets, courier_ids) ==
    IF courier_ids = <<>> THEN <<>>
    ELSE LET mine == courier_matches(matched, tickets, Head(courier_ids))
             rest == CourierRows(matched, tickets, Tail(courier_ids))
         IN  IF Len(mine) = 0 THEN rest
             ELSE <<CourierMetrics(Head(courier_ids), mine)>> \o rest

\* line 93: sort_values('trust_score'): the tables it may return
sort_values_trust(rows) ==
    LET scores == [k \in DOMAIN rows |-> rows[k].trust_score]
    IN  { Take(rows, p) :
            p \in ArgSorts([k \in DOMAIN rows |-> FracRank(scores, k)], DOMAIN rows) }

\* lines 60-90: courier_metrics
WitchRows(matched, tickets) ==
    CourierRows(matched, tickets,
                unique([k \in DOMAIN tickets |-> tickets[k].courier_id]))

\* get_witch_performance(df_matched, df_tickets): the tables it may return
get_witch_performance(matched, tickets) ==
    IF Len(matched) = 0 \/ Len(tickets) = 0 THEN { <<>> }
    ELSE IF Len(WitchRows(matched, tickets)) = 0 THEN { <<>> }
    ELSE sort_values_trust(WitchRows(matched, tickets))

(***************************************************************************)
(* Specification of the courier report: drains are reconciled against a    *)
(* fixed ticket table and get_witch_performance is computed; then one      *)
(* drain is replaced and the report is computed again, the earlier report  *)
(* being kept in `first` for comparison.                                   *)
(***************************************************************************)
\* most drains of one reconciliation
MaxResults == 3

\* four tickets, each with its own cauldron and day: courier w2 holds 78,
\* 98 and 82 L, courier w1 holds 102 L
TrustTickets ==
    <<TicketRow(1, "c1", 1 * MinutesPerDay + 600, 78),
      TicketRow(2, "c1", 2 * MinutesPerDay + 600, 102),
      TicketRow(3, "c2", 1 * MinutesPerDay + 600, 98),
      TicketRow(5, "c1", 3 * MinutesPerDay + 600, 82)>>

\* where a drain is due: at one of the tickets, or where no ticket is
TrustKeys == { <<TrustTickets[k].cauldron_id, date(TrustTickets[k].date)>> :
                   k \in DOMAIN TrustTickets } \cup { <<"c2", 3>> }

\* the k-th drain of the table
TrustDrain(k, key, amount) ==
    [cauldron_id |-> key[1],
     end_time |-> FirstTimestamp + 10 * k,
     date |-> date(FirstTimestamp + 10 * k),
     ticket_date |-> key[2],
     total_collected |-> amount]

TrustDrains(n) ==
    { [k \in 1..n |-> TrustDrain(k, keys[k], amounts[k])] :
      keys \in [1..n -> TrustKeys], amounts \in [1..n -> DrainAmounts] }

InitTrust ==
    /\ pc = "trust"
    /\ tickets_data = Payload(TrustTickets)
    /\ df_tickets = transform_tickets(Payload(TrustTickets))
    /\ df_drains \in UNION { TrustDrains(n) : n \in 0..MaxResults }
    /\ results = match_drains_to_tickets(df_drains, df_tickets).rows
    /\ m = 1 /\ summary = NotComputed /\ patterns = NotComputed
    /\ df_cauldrons = <<>> /\ df_fill_rates = <<>>
    /\ df_overflow = NotComputed /\ df_priority = NotComputed
    /\ df_witch_perf = NotComputed /\ fill_estimates = NotComputed
    /\ AllIdle
    /\ DetectIdle
    /\ FetchIdle
    /\ sort_memo = {}

\* the table comes out of sort_values when there is a row to sort
WitchSorted(matched, tickets, out) ==
    IF Len(matched) = 0 \/ Len(tickets) = 0 \/ Len(WitchRows(matched, tickets)) = 0
    THEN UNCHANGED sort_memo
    ELSE SortReturns("trust_score", WitchRows(matched, tickets), out)

\* df_witch_perf = get_witch_performance(df_matched, df_tickets)
WitchPerformance ==
    /\ pc = "trust"
    /\ \E sorted \in get_witch_performance(results, df_tickets.rows) :
          /\ WitchSorted(results, df_tickets.rows, sorted)
          /\ df_witch_perf' = sorted
    /\ pc' = "trust_done"
    /\ UNCHANGED <<df_cauldrons, df_fill_rates, df_overflow, df_priority, fill_estimates>>
    /\ UNCHANGED allVars
    /\ UNCHANGED detVars
    /\ UNCHANGED matchVars
    /\ UNCHANGED fetchVars

\* another drain table that differs in one drain is reconciled and reported
ReplaceDrain(k, key, amount) ==
    /\ pc = "trust_done"
    /\ k \in DOMAIN df_drains
    /\ df_drains' = [df_drains EXCEPT ![k] = TrustDrain(k, key, amount)]
    /\ results' = match_drains_to_tickets(df_drains', df_tickets).rows
    /\ \E sorted \in get_witch_performance(results', df_tickets.rows) :
          /\ WitchSorted(results', df_tickets.rows, sorted)
          /\ df_witch_perf' = sorted
    /\ first' = df_witch_perf
    /\ pc' = "trust_compared"
    /\ UNCHANGED <<tickets_data, df_tickets, m, summary, patterns>>
    /\ UNCHANGED <<df_levels, fill_rates, travel_times, c, all_drains>>
    /\ UNCHANGED <<df_cauldrons, df_fill_rates, df_overflow, df_priority, fill_estimates>>
    /\ UNCHANGED detVars
    /\ UNCHANGED fetchVars

NextTrust ==
    \/ WitchPerformance
    \/ \E k \in 1..MaxResults, key \in TrustKeys, amount \in DrainAmounts :
           ReplaceDrain(k, key, amount)

SpecTrust == InitTrust /\ [][NextTrust]_vars

(***************************************************************************)
(* C15: for every courier reported by get_witch_performance, trust_score = *)
(* min(100, max(0, 100 - 5 * |mean(difference)| - 10 * suspicious_count))  *)
(* over the results whose ticket belongs to the courier, so it lies in     *)
(* [0, 100]; risk_level is HIGH RISK iff trust_score < 40, MODERATE iff it *)
(* is in [40, 70), RELIABLE iff it is at least 70.                         *)
(***************************************************************************)
Reported == pc \in {"trust_done", "trust_compared"}

\* the results whose ticket belongs to the courier
ResultsOf(courier_id) ==
    SelectSeq(results,
              LAMBDA r : /\ r.ticket_id # None
                         /\ TicketById(tickets_data, r.ticket_id).courier_id = courier_id)

C15_TrustScore ==
    Reported =>
        /\ \A w \in { Couriers[k] : k \in DOMAIN Couriers } :
              (Len(ResultsOf(w)) > 0)
                  <=> (\E k \in DOMAIN df_witch_perf : df_witch_perf[k].courier_id = w)
        /\ \A k \in DOMAIN df_witch_perf :
              LET row == df_witch_perf[k]
                  mine == ResultsOf(row.courier_id)
                  n == Len(mine)
                  total == SeqSum([j \in DOMAIN mine |-> mine[j].difference])
                  suspicious == Len(SelectSeq(mine, LAMBDA r :
                                    r.status \in {"UNDER_REPORTED", "NO_TICKET_FOUND"}))
                  \* n * (100 - 5 * |mean| - 10 * suspicious)
                  raw == 100 * n - 5 * abs(total) - 10 * suspicious * n
                  t == row.trust_score
              IN  /\ t[2] > 0
                  /\ 0 <= t[1] /\ t[1] <= 100 * t[2]
                  /\ IF raw < 0 THEN t[1] = 0
                     ELSE IF raw > 100 * n THEN t[1] = 100 * t[2]
                     ELSE t[1] * n = raw * t[2]
                  /\ (row.risk_level = "HIGH RISK") <=> (t[1] < 40 * t[2])
                  /\ (row.risk_level = "MODERATE")
                         <=> (40 * t[2] <= t[1] /\ t[1] < 70 * t[2])
                  /\ (row.risk_level = "RELIABLE") <=> (70 * t[2] <= t[1])

\* one courier is floored at 0 (HIGH RISK), the other stands at exactly 40
\* (MODERATE)
C15_Witness ==
    /\ Reported
    /\ Len(df_witch_perf) = 2
    /\ df_witch_perf[1].trust_score = <<0, 1>>
    /\ df_witch_perf[1].risk_level = "HIGH RISK"
    /\ df_witch_perf[1].avg_discrepancy = <<22, 1>>
    /\ df_witch_perf[2].trust_score = <<40, 1>>
    /\ df_witch_perf[2].risk_level = "MODERATE"

(***************************************************************************)
(* C16: trust monotonicity.  When a courier's results change so that only  *)
(* suspicious_count grows by 1, or only |mean difference| grows, the new   *)
(* trust_score is strictly lower than the old one if that was above 0, and *)
(* stays 0 if the floor was reached; it never increases.                   *)
(***************************************************************************)
\* |p| < |q| for two means
AbsLess(p, q) == abs(p[1]) * q[2] < abs(q[1]) * p[2]

\* report row b is report row a of the same courier with one more
\* suspicious result and the same |mean|, or a larger |mean| and the same count
Worse(a, b) ==
    /\ a.courier_id = b.courier_id
    /\ \/ /\ b.suspicious_tickets = a.suspicious_tickets + 1
          /\ ~AbsLess(a.avg_discrepancy, b.avg_discrepancy)
          /\ ~AbsLess(b.avg_discrepancy, a.avg_discrepancy)
       \/ /\ b.suspicious_tickets = a.suspicious_tickets
          /\ AbsLess(a.avg_discrepancy, b.avg_discrepancy)

C16_TrustMonotone ==
    pc = "trust_compared" =>
        \A j \in DOMAIN first, k \in DOMAIN df_witch_perf :
            Worse(first[j], df_witch_perf[k]) =>
                IF first[j].trust_score[1] > 0
                THEN FracLess(df_witch_perf[k].trust_score, first[j].trust_score)
                ELSE df_witch_perf[k].trust_score[1] = 0

\* a courier's report gained one suspicious result at the same mean and its
\* positive trust score dropped
C16_Witness ==
    /\ pc = "trust_compared"
    /\ \E j \in DOMAIN first, k \in DOMAIN df_witch_perf :
          /\ first[j].courier_id = df_witch_perf[k].courier_id
          /\ df_witch_perf[k].suspicious_tickets = first[j].suspicious_tickets + 1
          /\ df_witch_perf[k].avg_discrepancy = first[j].avg_discrepancy
          /\ first[j].trust_score[1] > 0
          /\ FracLess(df_witch_perf[k].trust_score, first[j].trust_score)

(***************************************************************************)
(* Specification of the reports over a reconciliation of six cauldrons:    *)
(* every cauldron has one 78 L ticket and none, one or several drains, all *)
(* under-reported: of 80 L (2 L short) or of 100 L (22 L short) for c1 and *)
(* c2, which can tie, and of 103 to 106 L for c3 to c6.                    *)
(***************************************************************************)
\* most drains of one cauldron
MaxEvents == 3

PatternTickets ==
    [k \in DOMAIN CauldronIds |-> TicketRow(k, CauldronIds[k], MinutesPerDay + 600, 78)]

\* the drains of the cauldrons, cauldron after cauldron: counts[k] drains
\* of amounts[k] litres for the k-th cauldron
RECURSIVE PatternDrainsFrom(_, _, _, _)
PatternDrainsFrom(k, counts, amounts, acc) ==
    IF k > Len(CauldronIds) THEN acc
    ELSE PatternDrainsFrom(k + 1, counts, amounts,
             acc \o [j \in 1..counts[k] |->
                        TrustDrain(Len(acc) + j, <<CauldronIds[k], 1>>, amounts[k])])

\* the litres of one drain of each cauldron
PatternAmounts ==
    { [k \in DOMAIN CauldronIds |-> IF k <= 2 THEN a[k] ELSE 100 + k] :
      a \in [1..2 -> DrainAmounts] }

PatternDrains ==
    { PatternDrainsFrom(1, counts, amounts, <<>>) :
      counts \in [DOMAIN CauldronIds -> {0, 1, MaxEvents}],
      amounts \in PatternAmounts }

InitPatterns ==
    /\ pc = "match_done"
    /\ tickets_data = Payload(PatternTickets)
    /\ df_tickets = transform_tickets(Payload(PatternTickets))
    /\ df_drains \in PatternDrains
    /\ results = match_drains_to_tickets(df_drains, df_tickets).rows
    /\ m = Len(df_drains) + 1 /\ summary = NotComputed /\ patterns = NotComputed
    /\ RiskIdle
    /\ AllIdle
    /\ DetectIdle
    /\ FetchIdle
    /\ sort_memo = {}

NextPatterns ==
    \/ SystemSummary
    \/ SuspiciousPatterns

SpecPatterns == InitPatterns /\ [][NextPatterns]_vars

(***************************************************************************)
(* C17: get_suspicious_patterns lists as systematic-theft candidates the   *)
(* cauldrons with at least 3 UNDER_REPORTED or NO_TICKET_FOUND results, in *)
(* descending missing volume, at most the top 5 of them: the list is not   *)
(* empty when some cauldron has 3 such results, and such a cauldron is     *)
(* left out only if 5 other such cauldrons have a larger missing volume.   *)
(***************************************************************************)
SuspiciousOf(id) ==
    SelectSeq(results, LAMBDA r : /\ r.cauldron_id = id
                                  /\ r.status \in {"UNDER_REPORTED", "NO_TICKET_FOUND"})

MissingVolume(id) ==
    LET mine == SuspiciousOf(id)
    IN  abs(SeqSum([k \in DOMAIN mine |->
                       IF mine[k].difference = None THEN 0 ELSE mine[k].difference]))

Candidates == { CauldronIds[k] : k \in { j \in DOMAIN CauldronIds :
                                            Len(SuspiciousOf(CauldronIds[j])) >= 3 } }

Listed == { patterns.systematic_theft[k].cauldron_id :
                k \in DOMAIN patterns.systematic_theft }

C17_SystematicTheftTopFive ==
    (pc = "reported" /\ Len(results) > 0) =>
        /\ Listed \subseteq Candidates
        /\ Len(patterns.systematic_theft) <= 5
        /\ (Candidates # {}) => (Listed # {})
        /\ \A id \in Candidates \ Listed :
              Cardinality({ other \in Candidates \ {id} :
                                MissingVolume(other) > MissingVolume(id) }) >= 5
        /\ \A k \in 1..(Len(patterns.systematic_theft) - 1) :
              patterns.systematic_theft[k].missing_volume
                  >= patterns.systematic_theft[k + 1].missing_volume

(***************************************************************************)
(* Fill-rate estimation: backend.fill_rates.calculate_fill_rates (the      *)
(* segment method, called by main.py) and analysis.calculate_fill_rates    *)
(* (the median of the positive pointwise rates, called by app.py).         *)
(***************************************************************************)
\* positive_rates = rates[rates > 0] from position k on, as exact fractions;
\* the first rate is NaN, the index is strictly increasing
RECURSIVE PositiveRatesFrom(_, _)
PositiveRatesFrom(s, k) ==
    IF k > Len(s) THEN <<>>
    ELSE LET r == rates(s, k)
         IN  (IF k >= 2 /\ r[1] > 0 THEN <<Frac(r[1], r[2])>> ELSE <<>>)
             \o PositiveRatesFrom(s, k + 1)

positive_rates(s) == PositiveRatesFrom(s, 2)

RECURSIVE InsertAscending(_, _)
InsertAscending(fs, f) ==
    IF fs = <<>> THEN <<f>>
    ELSE IF FracLess(f, Head(fs)) THEN <<f>> \o fs
    ELSE <<Head(fs)>> \o InsertAscending(Tail(fs), f)

RECURSIVE SortAscending(_)
SortAscending(fs) ==
    IF fs = <<>> THEN <<>>
    ELSE InsertAscending(SortAscending(Tail(fs)), Head(fs))

\* p * q and p + q of fractions, in lowest terms
FracMul(p, q) ==
    LET g1 == GCD(abs(p[1]), q[2])
        g2 == GCD(abs(q[1]), p[2])
    IN  <<(p[1] \div g1) * (q[1] \div g2), (p[2] \div g2) * (q[2] \div g1)>>
FracAdd(p, q) ==
    LET g == GCD(p[2], q[2])
    IN  Frac(p[1] * (q[2] \div g) + q[1] * (p[2] \div g), (p[2] \div g) * q[2])

RECURSIVE FracSum(_)
FracSum(fs) == IF fs = <<>> THEN <<0, 1>> ELSE FracAdd(Head(fs), FracSum(Tail(fs)))

\* Series.median() of a non-empty list of rates: the middle value, or the
\* mean of the two middle values
median(fs) ==
    LET sorted == SortAscending(fs)
        n == Len(sorted)
        lo == sorted[n \div 2]
        hi == sorted[n \div 2 + 1]
    IN  IF n % 2 = 1 THEN sorted[(n + 1) \div 2]
        ELSE FracMul(FracAdd(lo, hi), <<1, 2>>)

\* the appended dict: fill_rate_per_hour = median_fill_rate * 60
FillRateRow(col, rate) ==
    [cauldron |-> col, fill_rate_per_min |-> rate,
     fill_rate_per_hour |-> Frac(rate[1] * 60, rate[2])]

\* analysis.py lines 91-106: one column's rows
PointwiseColumn(df, col) ==
    LET s == dropna(ColumnSeries(df, col))
    IN  IF Len(s) < 2 THEN <<>>
        ELSE IF Len(positive_rates(s)) > 0
             THEN <<FillRateRow(col, median(positive_rates(s)))>>
             ELSE <<>>

RECURSIVE PointwiseRows(_, _)
PointwiseRows(df, cols) ==
    IF cols = <<>> THEN <<>>
    ELSE PointwiseColumn(df, Head(cols)) \o PointwiseRows(df, Tail(cols))

\* analysis.calculate_fill_rates(df_levels)
analysis_calculate_fill_rates(df) == PointwiseRows(df, cauldron_cols(df))

\* fill_rates.py line 27: window_size = max(10, int(window_minutes / interval))
window_size(s) ==
    LET sample_interval_min == s[2].t - s[1].t
        fitting == 180 \div sample_interval_min
    IN  IF fitting > 10 THEN fitting ELSE 10

\* series.iloc[a:b]: the positions a .. b - 1, counted from 0
iloc(s, a, b) == SubSeq(s, a + 1, IF b < Len(s) THEN b ELSE Len(s))

\* a / b < n / d for a, n >= 0 and b, d > 0, by the continued fractions of
\* the two sides (no product is formed)
RECURSIVE FracBelow(_, _, _, _)
FracBelow(a, b, n, d) ==
    IF a \div b # n \div d THEN a \div b < n \div d
    ELSE IF n % d = 0 THEN FALSE
    ELSE IF a % b = 0 THEN TRUE
    ELSE FracBelow(d, n % d, b, a % b)

\* scipy.stats.linregress(time_minutes, levels) of the samples w, the
\* minutes counted from t0: slope = ssxym / ssxm and
\* r = ssxym / sqrt(ssxm * ssym), r = 0 when the levels do not vary. The
\* sums are those of the covariance matrix times n * n, which cancels; the
\* times differ, so ssxm > 0.
linregress(w, t0) ==
    LET n == Len(w)
        x == [k \in 1..n |-> w[k].t - t0]
        y == [k \in 1..n |-> w[k].level]
        ssxm == n * SeqSum([k \in 1..n |-> x[k] * x[k]]) - SeqSum(x) * SeqSum(x)
        ssxym == n * SeqSum([k \in 1..n |-> x[k] * y[k]]) - SeqSum(x) * SeqSum(y)
        ssym == n * SeqSum([k \in 1..n |-> y[k] * y[k]]) - SeqSum(y) * SeqSum(y)
    IN  [slope |-> Frac(ssxym, ssxm),
         r_sign |-> IF ssym = 0 \/ ssxym = 0 THEN 0
                    ELSE IF ssxym > 0 THEN 1 ELSE -1,
         r_squared |-> IF ssym = 0 THEN <<0, 1>>
                       ELSE FracMul(Frac(abs(ssxym), ssxm), Frac(abs(ssxym), ssym))]

\* r_value > num / den for a threshold in (0, 1): r is positive and its
\* square is above the square of the threshold
r_value_above(reg, num, den) ==
    /\ reg.r_sign > 0
    /\ FracBelow(num * num, den * den, reg.r_squared[1], reg.r_squared[2])

\* fill_rates.py lines 29-53: the windows from position at on (step
\* window_size // 2) that rise by more than 5 L with r > 0.85 and a
\* positive slope over at least min_segment_duration_min minutes
RECURSIVE WindowSegments(_, _, _, _)
WindowSegments(s, w, at, min_segment_duration_min) ==
    IF ~(at + w < Len(s)) THEN <<>>
    ELSE LET window_data == iloc(s, at, at + w)
             level_change == window_data[Len(window_data)].level - window_data[1].level
             start_time == window_data[1].t
             end_time == window_data[Len(window_data)].t
             reg == linregress(window_data, start_time)
             found == /\ Len(window_data) >= 3
                      /\ level_change > 5
                      /\ r_value_above(reg, 17, 20)
                      /\ reg.slope[1] > 0
                      /\ end_time - start_time >= min_segment_duration_min
         IN  (IF found
              THEN <<[start_idx |-> at, end_idx |-> at + w - 1,
                      start_time |-> start_time, end_time |-> end_time]>>
              ELSE <<>>)
             \o WindowSegments(s, w, at + w \div 2, min_segment_duration_min)

\* lines 55-63: a segment starting within 60 minutes of the end of the last
\* merged one is joined to it
RECURSIVE MergeSegments(_, _)
MergeSegments(merged, segs) ==
    IF segs = <<>> THEN merged
    ELSE IF merged = <<>> THEN MergeSegments(<<Head(segs)>>, Tail(segs))
    ELSE LET last_seg == merged[Len(merged)]
             seg == Head(segs)
         IN  IF seg.start_time <= last_seg.end_time + 60
             THEN MergeSegments(
                      SubSeq(merged, 1, Len(merged) - 1)
                          \o <<[start_idx |-> last_seg.start_idx,
                                end_idx |-> seg.end_idx,
                                start_time |-> last_seg.start_time,
                                end_time |-> seg.end_time]>>,
                      Tail(segs))
             ELSE MergeSegments(merged \o <<seg>>, Tail(segs))

\* lines 7-65
_identify_filling_segments(s, min_segment_duration_min) ==
    IF Len(s) < 10 THEN <<>>
    ELSE MergeSegments(<<>>, WindowSegments(s, window_size(s), 0,
                                            min_segment_duration_min))

\* lines 68-100: the slope of the regression over the segment when
\* r > 0.7, the rate between two samples, else NaN
_calculate_segment_rate(s, start_idx, end_idx, start_time) ==
    LET segment_data == iloc(s, start_idx, end_idx + 1)
        n == Len(segment_data)
        reg == linregress(segment_data, start_time)
        level_change == segment_data[n].level - segment_data[1].level
        time_change == segment_data[n].t - segment_data[1].t
    IN  IF n < 2 THEN RateNaN
        ELSE IF n >= 3
             THEN IF r_value_above(reg, 7, 10) THEN reg.slope ELSE RateNaN
             ELSE IF time_change > 0 THEN Frac(level_change, time_change)
                  ELSE RateNaN

\* lines 131-135: the rates of the segments that are numbers above 0
RECURSIVE SegmentRates(_, _)
SegmentRates(s, segs) ==
    IF segs = <<>> THEN <<>>
    ELSE LET seg == Head(segs)
             rate == _calculate_segment_rate(s, seg.start_idx, seg.end_idx,
                                             seg.start_time)
         IN  (IF ~rate_isnan(rate) /\ rate[1] > 0 THEN <<rate>> ELSE <<>>)
             \o SegmentRates(s, Tail(segs))

\* np.percentile(fs, q): between the two values around position
\* q / 100 * (n - 1) of the ascending rates, linearly
percentile(fs, q) ==
    LET sorted == SortAscending(fs)
        n == Len(sorted)
        below == (q * (n - 1)) \div 100
        part == (q * (n - 1)) % 100
        lo == sorted[below + 1]
        hi == sorted[IF below + 2 <= n THEN below + 2 ELSE n]
    IN  FracAdd(FracMul(lo, Frac(100 - part, 100)), FracMul(hi, Frac(part, 100)))

\* lines 143-154: the appended dict, use_percentile = 25.0
SegmentRow(col, segment_rates) ==
    LET rate == percentile(segment_rates, 25)
    IN  [cauldron |-> col,
         fill_rate_per_min |-> rate,
         fill_rate_per_hour |-> Frac(rate[1] * 60, rate[2]),
         num_segments |-> Len(segment_rates),
         median_segment_rate |-> median(segment_rates),
         \* np.mean(segment_rates)
         mean_segment_rate |-> FracMul(FracSum(segment_rates),
                                       <<1, Len(segment_rates)>>)]

\* fill_rates.py lines 122-154 for one column: skipped with fewer than 10
\* samples, without a segment, or without a positive segment rate
SegmentColumn(df, col) ==
    LET s == dropna(ColumnSeries(df, col))
        segs == _identify_filling_segments(s, 120)
        segment_rates == SegmentRates(s, segs)
    IN  IF Len(s) < 10 THEN <<>>
        ELSE IF Len(segs) = 0 THEN <<>>
        ELSE IF Len(segment_rates) = 0 THEN <<>>
        ELSE <<SegmentRow(col, segment_rates)>>

RECURSIVE SegmentRows(_, _)
SegmentRows(df, cols) ==
    IF cols = <<>> THEN <<>>
    ELSE SegmentColumn(df, Head(cols)) \o SegmentRows(df, Tail(cols))

\* backend.fill_rates.calculate_fill_rates(df_levels)
calculate_fill_rates(df) == SegmentRows(df, cauldron_cols(df))

(***************************************************************************)
(* Specification of the fill-rate step of a run: main.py estimates with    *)
(* the segment method, app.py with the pointwise median.                   *)
(***************************************************************************)
\* most rows of the level table whose fill rates are estimated
MaxFillRows == 9

\* the columns of the table: two cauldrons and a column that is none
FillColumns == LevelColumns \o <<"potion_levels.c3">>

\* level tables of n rows: c1 rises, falls, stays or misses samples, the
\* other columns rise by 10 per sample
FillTables(n) ==
    { [index |-> RowTimes(n), columns |-> FillColumns,
       data |-> [col \in {"cauldron_levels.c1", "cauldron_levels.c2",
                          "potion_levels.c3"} |->
                    IF col = "cauldron_levels.c1" THEN a
                    ELSE [k \in 1..n |-> 10 * k]]] :
      a \in [1..n -> {10, 30, NaN}] }

\* tables long enough for the windows of the segment method
LongRowCounts == {11, 16, 21, 24}

\* their timestamps: a sample every 10 or every 30 minutes, or a second
\* sample after three hours and one every 10 minutes from then on
LongIndexes(n) ==
    { [k \in 1..n |-> FirstTimestamp + step * (k - 1)] : step \in {10, 30} }
    \cup { [k \in 1..n |-> IF k = 1 THEN FirstTimestamp
                            ELSE FirstTimestamp + 180 + 10 * (k - 2)] }

\* the levels of c1: they rise by step1 per sample, drop at row reset_at and
\* rise by step2 from there, every other sample reads amp higher, and the
\* rows of missing have no reading
LongLevels(n) ==
    { [k \in 1..n |->
          IF k \in missing THEN NaN
          ELSE (IF k < reset_at THEN step1 * k ELSE step2 * (k - reset_at + 1))
               + (IF k % 2 = 1 THEN amp ELSE 0)] :
      step1 \in {0, 5, 10}, step2 \in {0, 5, 10}, reset_at \in {11, 14, n + 1},
      amp \in {0, 15}, missing \in {{}, {11, 12, 13}} }

\* c2 rises by 10 per sample, from the first row or from the third
LongTables(n) ==
    { [index |-> times, columns |-> FillColumns,
       data |-> [col \in {"cauldron_levels.c1", "cauldron_levels.c2",
                          "potion_levels.c3"} |->
                    IF col = "cauldron_levels.c1" THEN a
                    ELSE IF col = "cauldron_levels.c2"
                    THEN [k \in 1..n |-> IF k <= late THEN NaN ELSE 10 * (k - late)]
                    ELSE [k \in 1..n |-> 10 * k]]] :
      times \in LongIndexes(n), a \in LongLevels(n), late \in {0, 2} }

InitFill ==
    /\ pc = "fill"
    /\ \/ \E n \in 0..MaxFillRows : df_levels \in FillTables(n)
       \/ \E n \in LongRowCounts : df_levels \in LongTables(n)
    /\ fill_rates = <<>> /\ travel_times = <<>>
    /\ c = 1 /\ all_drains = <<>> /\ first = NotComputed
    /\ RiskIdle
    /\ DetectIdle
    /\ MatchIdle
    /\ FetchIdle
    /\ sort_memo = {}

\* main.py line 22, data_loader.py line 41:
\* df_fill_rates = calculate_fill_rates(df_levels)
CalculateFillRates ==
    /\ pc = "fill"
    /\ fill_estimates' = calculate_fill_rates(df_levels)
    /\ pc' = "fill_done"
    /\ UNCHANGED <<df_cauldrons, df_fill_rates, df_overflow, df_priority, df_witch_perf>>
    /\ UNCHANGED allVars
    /\ UNCHANGED detVars
    /\ UNCHANGED matchVars
    /\ UNCHANGED fetchVars
    /\ UNCHANGED sort_memo

\* app.py line 16: df_fill_rates = analysis.calculate_fill_rates(df_levels)
AnalysisFillRates ==
    /\ pc = "fill"
    /\ fill_estimates' = analysis_calculate_fill_rates(df_levels)
    /\ pc' = "fill_done_app"
    /\ UNCHANGED <<df_cauldrons, df_fill_rates, df_overflow, df_priority, df_witch_perf>>
    /\ UNCHANGED allVars
    /\ UNCHANGED detVars
    /\ UNCHANGED matchVars
    /\ UNCHANGED fetchVars
    /\ UNCHANGED sort_memo

NextFill ==
    \/ CalculateFillRates
    \/ AnalysisFillRates

SpecFill == InitFill /\ [][NextFill]_vars

\* the estimates produced for one column
EstimatesOf(col) == SelectSeq(fill_estimates, LAMBDA row : row.cauldron = col)

(***************************************************************************)
(* C18: after the run's fill-rate step (main.py, the segment method with   *)
(* its fallback), a tank with fewer than 2 non-missing samples has no      *)
(* estimate, a tank with 2 to 9 non-missing samples has exactly the        *)
(* pointwise-median estimate (the median of its positive consecutive-      *)
(* sample rates, when there is one), and every estimate produced has       *)
(* rate_per_minute > 0 and rate_per_hour = 60 * rate_per_minute.           *)
(***************************************************************************)
C18_FillRateFallback ==
    pc = "fill_done" =>
        \A k \in DOMAIN cauldron_cols(df_levels) :
            LET col == cauldron_cols(df_levels)[k]
                s == dropna(ColumnSeries(df_levels, col))
            IN  /\ Len(s) < 2 => EstimatesOf(col) = <<>>
                /\ (Len(s) >= 2 /\ Len(s) < 10) =>
                       EstimatesOf(col) = PointwiseColumn(df_levels, col)
                /\ \A e \in DOMAIN EstimatesOf(col) :
                       LET row == EstimatesOf(col)[e]
                       IN  /\ row.fill_rate_per_min[1] > 0
                           /\ row.fill_rate_per_min[2] > 0
                           /\ row.fill_rate_per_hour[1] * row.fill_rate_per_min[2]
                                  = 60 * row.fill_rate_per_min[1]
                                       * row.fill_rate_per_hour[2]

(***************************************************************************)
(* C19: over any sequence of fetch_api_data calls the cache is populated   *)
(* at most once per key: a key that held a value before a call holds the   *)
(* same value after it.                                                    *)
(***************************************************************************)
C19_CachePopulatedOnce ==
    \A e \in Endpoints :
        last_call.cache_before[e].present => _cache[e] = last_call.cache_before[e]

(***************************************************************************)
(* C20: there is no retry: once a fetch_api_data call for an endpoint has  *)
(* failed, no later call for that endpoint issues another network request  *)
(* or returns non-empty data.                                              *)
(***************************************************************************)
C20_FailureIsTerminal ==
    [][\A f \in failed :
           /\ requests'[f.endpoint] = requests[f.endpoint]
           /\ (/\ last_call'.id # last_call.id
               /\ last_call'.id > f.after
               /\ last_call'.endpoint = f.endpoint)
                  => last_call'.result = FetchFailed]_vars

(***************************************************************************)
(* Further properties of one detect_drain_events call (SpecDetect).        *)
(***************************************************************************)
\* the position of the sample with timestamp t (timestamps are distinct)
IndexOf(t) == CHOOSE k \in DOMAIN series : series[k].t = t

\* the highest level over positions a..b
MaxLevel(a, b) ==
    CHOOSE v \in { series[j].level : j \in a..b } :
        \A j \in a..b : series[j].level <= v

\* the position from which the peak of the k-th closed drain runs: the
\* sample that closed the previous drain, or the first sample
PeakFrom(k) == IF k = 1 THEN 1 ELSE IndexOf(det.closed[k - 1].end_time)

\* a drain whose peak runs from position `from` started at position sk with
\* peak lb: sk is the first flagged sample and lb the highest level so far
StartsAt(from, sk, lb) ==
    /\ from <= sk /\ sk <= Len(series)
    /\ is_draining(series, sk)
    /\ \A j \in from..(sk - 1) : ~is_draining(series, j)
    /\ lb = MaxLevel(from, sk)

(***************************************************************************)
(* C21: while NOT_DRAINING the first sample whose rate is below -0.05      *)
(* starts the drain, start_time is that sample's timestamp, and the        *)
(* level_before of the drain is the highest level over the samples from    *)
(* the one that closed the previous drain (or the first sample) up to the  *)
(* start sample; the peak does not change while DRAINING.                  *)
(***************************************************************************)
C21_DrainStart ==
    pc \in {"detect_loop", "detect_done"} =>
        /\ \A k \in DOMAIN det.closed :
              StartsAt(PeakFrom(k), IndexOf(det.closed[k].start_time),
                       det.closed[k].level_before)
        /\ det.in_drain =>
              /\ det.drain_start = series[det.drain_start_idx].t
              /\ StartsAt(PeakFrom(Len(det.closed) + 1), det.drain_start_idx,
                          det.peak_level)

\* a second drain in progress whose peak is the level of the sample that
\* closed the first drain, not the level just before the start sample
C21_Witness ==
    /\ pc = "detect_loop" /\ det.in_drain /\ Len(det.closed) = 1
    /\ det.peak_level = 45
    /\ det.closed[1].level_after = 45
    /\ series[det.drain_start_idx - 1].level = 30

(***************************************************************************)
(* C22: once DRAINING the detector stays DRAINING through every            *)
(* consecutive flagged sample and closes on the first sample not flagged;  *)
(* the closed drain has end_time and level_after of that sample,           *)
(* level_drop = level_before - level_after, duration = end_time -          *)
(* start_time in minutes, inflow = fill_rate * duration and                *)
(* total_collected = level_drop + inflow.                                  *)
(***************************************************************************)
ClosesAt(ev, sk, ek) ==
    /\ sk < ek
    /\ \A j \in sk..(ek - 1) : is_draining(series, j)
    /\ ~is_draining(series, ek)
    /\ ev.end_time = series[ek].t
    /\ ev.level_after = series[ek].level
    /\ ev.level_drop = ev.level_before - ev.level_after
    /\ ev.drain_duration_min = ev.end_time - ev.start_time
    /\ ev.potion_generated_during_drain = fill_rate * ev.drain_duration_min
    /\ ev.total_collected = ev.level_drop + ev.potion_generated_during_drain

C22_DrainClose ==
    pc \in {"detect_loop", "detect_done"} =>
        /\ \A k \in DOMAIN det.closed :
              ClosesAt(det.closed[k], IndexOf(det.closed[k].start_time),
                       IndexOf(det.closed[k].end_time))
        /\ det.in_drain =>
              \A j \in det.drain_start_idx..(i - 1) : is_draining(series, j)
        /\ (~det.in_drain /\ i > 1 /\ Len(series) >= 3) =>
              ~is_draining(series, i - 1)

\* a drain that ran through two flagged samples before it closed and was
\* emitted
C22_Witness ==
    /\ pc = "detect_loop" /\ Len(det.drain_events) = 1 /\ fill_rate = 1
    /\ IndexOf(det.drain_events[1].end_time)
           = IndexOf(det.drain_events[1].start_time) + 2
    /\ det.drain_events[1].drain_duration_min = 60
    /\ det.drain_events[1].total_collected = 35 + 60

(***************************************************************************)
(* C23: after every drain close, emitted or rejected, the detector is      *)
(* NOT_DRAINING with its peak reset to the closing sample's level: until   *)
(* the next drain starts the peak is the highest level from the closing    *)
(* sample on, and the next drain's level_before never exceeds the highest  *)
(* level between that closing sample and its own start.                    *)
(***************************************************************************)
C23_PeakResetAfterClose ==
    (pc \in {"detect_loop", "detect_done"} /\ det.closed # <<>>) =>
        LET last == det.closed[Len(det.closed)]
            ek == IndexOf(last.end_time)
        IN  /\ ek = i - 1 => (~det.in_drain /\ det.peak_level = last.level_after)
            /\ ~det.in_drain => det.peak_level = MaxLevel(ek, i - 1)
            /\ \A k \in 2..Len(det.closed) :
                  det.closed[k].level_before
                      <= MaxLevel(IndexOf(det.closed[k - 1].end_time),
                                  IndexOf(det.closed[k].start_time))

\* a drain rejected for a drop of 15 from a peak of 45, then an emitted
\* drain measured from the level 30 at which the first one closed
C23_Witness ==
    /\ pc = "detect_loop" /\ Len(det.closed) = 2 /\ Len(det.drain_events) = 1
    /\ det.closed[1].level_before = 45 /\ det.closed[1].level_drop = 15
    /\ det.closed[2].level_before = 30 /\ det.closed[2].level_drop = 20
    /\ det.drain_events[1] = det.closed[2]

(***************************************************************************)
(* get_matching_summary: the counts and volumes of the matched table.      *)
(***************************************************************************)
\* len(df_matched[df_matched['status'] == status])
CountStatus(rows, status) == Len(SelectSeq(rows, LAMBDA r : r.status = status))

\* line 216: the under_reported count
UnderReportedCount_AllSuspicious(rows) == Len(SelectSeq(rows, IsSuspicious))
UnderReportedCount(rows) == CountStatus(rows, "UNDER_REPORTED")

\* get_matching_summary(df_matched): {} for an empty table
get_matching_summary(rows) ==
    IF Len(rows) = 0 THEN EmptyDict
    ELSE LET total_drained == SeqSum(Column(rows, "drain_amount"))
             total_ticketed == SumSkipNa(Column(rows, "ticket_amount"))
         IN  [total_drains |-> Len(rows),
              matched |-> CountStatus(rows, "MATCHED"),
              under_reported |-> UnderReportedCount(rows),
              over_reported |-> CountStatus(rows, "OVER_REPORTED"),
              no_ticket |-> CountStatus(rows, "NO_TICKET_FOUND"),
              total_drained_volume |-> total_drained,
              total_ticketed_volume |-> total_ticketed,
              total_unaccounted |-> total_drained - total_ticketed,
              accuracy_pct |-> Frac(CountStatus(rows, "MATCHED") * 100, Len(rows))]

(***************************************************************************)
(* TicketMatcher.match_drains_to_tickets (src/ticket_matcher.py): the same *)
(* reconciliation with the nearest ticket found by an explicit loop.       *)
(***************************************************************************)
\* line 40: min_diff = float('inf'), above every difference
Inf == 1000003

\* lines 42-46: for each candidate in order, diff < min_diff replaces the
\* best ticket; the result is [min_diff, best_ticket]
RECURSIVE NearestLoop(_, _, _, _)
NearestLoop(cands, drain_amount, min_diff, best) ==
    IF cands = <<>> THEN [min_diff |-> min_diff, best_ticket |-> best]
    ELSE LET diff == abs(drain_amount - Head(cands).amount_collected)
         IN  IF diff < min_diff
             THEN NearestLoop(Tail(cands), drain_amount, diff, Head(cands))
             ELSE NearestLoop(Tail(cands), drain_amount, min_diff, best)

\* lines 48-76: the result row against the ticket the loop selected
TicketMatcherRow(drain, cands) ==
    LET drain_amount == drain.total_collected
        found == NearestLoop(cands, drain_amount, Inf, None)
        ticket_amount == found.best_ticket.amount_collected
        pct == IF drain_amount > 0
               THEN Frac(found.min_diff * 100, drain_amount) ELSE <<0, 1>>
    IN  [drain_id |-> <<drain.cauldron_id, drain.end_time>>,
         cauldron_id |-> drain.cauldron_id,
         drain_date |-> drain.date,
         ticket_date |-> drain.ticket_date,
         drain_time |-> drain.end_time,
         drain_amount |-> drain_amount,
         ticket_id |-> found.best_ticket.ticket_id,
         ticket_amount |-> ticket_amount,
         difference |-> ticket_amount - drain_amount,
         difference_pct |-> pct,
         status |-> IF WithinTolerance(pct) THEN "MATCHED"
                    ELSE IF ticket_amount < drain_amount THEN "UNDER_REPORTED"
                    ELSE "OVER_REPORTED"]

RECURSIVE TicketMatcherFrom(_, _, _)
TicketMatcherFrom(acc, drains, tickets) ==
    IF drains = <<>> THEN acc
    ELSE LET cands == matching_tickets(Head(drains), tickets)
             row == IF Len(cands) = 0 THEN NoTicketRow(Head(drains))
                    ELSE TicketMatcherRow(Head(drains), cands)
         IN  TicketMatcherFrom(Append(acc, row), Tail(drains), tickets)

\* TicketMatcher.match_drains_to_tickets(df_drains, df_tickets): the rows
\* returned, or the KeyError of the first ticket lookup (lines 18-21) on a
\* ticket frame without the 'cauldron_id' or the 'date' column
TicketMatcher_match_drains_to_tickets(drains, tickets) ==
    IF drains # <<>> /\ TicketLookupRaises(tickets)
    THEN [raised |-> TRUE, rows |-> <<>>]
    ELSE [raised |-> FALSE, rows |-> TicketMatcherFrom(<<>>, drains, tickets)]

(***************************************************************************)
(* Specification of one table of drains reconciled by both                 *)
(* implementations against the same tickets.                               *)
(***************************************************************************)
\* most drains and most tickets of the tables reconciled twice
MaxPicks == 2
MaxCandidates == 3

\* tickets of cauldron c1 or c2 stamped on day 1; 48 and 52 are equally
\* near a drain of 50, 49 is within 2% of it, 78 is 2.5% below a drain of 80
PickTickets(n) ==
    { [k \in 1..n |-> TicketRow(k, cs[k], 2040, as[k])] :
      cs \in [1..n -> {"c1", "c2"}], as \in [1..n -> {48, 49, 52, 78}] }

\* drains of cauldron c1 due on day 1
PickDrains(n) ==
    { [k \in 1..n |-> TrustDrain(k, <<"c1", 1>>, as[k])] :
      as \in [1..n -> {50, 80}] }

\* the tickets fetched: a list of tickets, an empty list, or the {} of a
\* failed fetch
InitPick ==
    /\ pc = "pick"
    /\ \/ \E n \in 1..MaxCandidates :
             tickets_data \in { Payload(r) : r \in PickTickets(n) }
       \/ tickets_data \in {Payload(<<>>), FetchFailed}
    /\ df_tickets = transform_tickets(tickets_data)
    /\ \E n \in 1..MaxPicks : df_drains \in PickDrains(n)
    /\ m = 1 /\ results = <<>> /\ summary = NotComputed /\ patterns = NotComputed
    /\ df_levels = EmptyLevels /\ fill_rates = <<>> /\ travel_times = <<>>
    /\ c = 1 /\ all_drains = <<>> /\ first = <<>>
    /\ RiskIdle
    /\ DetectIdle
    /\ FetchIdle
    /\ sort_memo = {}

\* main.py line 38: df_matched = match_drains_to_tickets(df_drains, df_tickets)
PickMin ==
    /\ pc = "pick"
    /\ LET r == match_drains_to_tickets(df_drains, df_tickets)
       IN  /\ results' = r.rows
           /\ pc' = IF r.raised THEN "pick_min_raised" ELSE "pick_loop"
    /\ UNCHANGED <<tickets_data, df_tickets, df_drains, m, summary, patterns>>
    /\ UNCHANGED allVars
    /\ UNCHANGED detVars
    /\ UNCHANGED fetchVars
    /\ UNCHANGED sort_memo
    /\ UNCHANGED riskVars

\* the same tables through TicketMatcher.match_drains_to_tickets
PickLoop ==
    /\ pc \in {"pick_loop", "pick_min_raised"}
    /\ LET r == TicketMatcher_match_drains_to_tickets(df_drains, df_tickets)
       IN  /\ first' = r.rows
           /\ pc' = IF r.raised \/ pc = "pick_min_raised" THEN "pick_loop_raised"
                     ELSE "pick_done"
    /\ UNCHANGED <<df_levels, fill_rates, travel_times, c, all_drains>>
    /\ UNCHANGED matchVars
    /\ UNCHANGED detVars
    /\ UNCHANGED fetchVars
    /\ UNCHANGED sort_memo
    /\ UNCHANGED riskVars

\* main.py line 39: summary = get_matching_summary(df_matched)
PickSummary ==
    /\ pc = "pick_done"
    /\ summary' = get_matching_summary(results)
    /\ pc' = "pick_summarised"
    /\ UNCHANGED <<tickets_data, df_tickets, df_drains, m, results, patterns>>
    /\ UNCHANGED allVars
    /\ UNCHANGED detVars
    /\ UNCHANGED fetchVars
    /\ UNCHANGED sort_memo
    /\ UNCHANGED riskVars

NextPick ==
    \/ PickMin
    \/ PickLoop
    \/ PickSummary

SpecPick == InitPick /\ [][NextPick]_vars

(***************************************************************************)
(* C24: for a drain with candidates, the ticket match_drains_to_tickets    *)
(* selects is a candidate and no candidate is strictly nearer in amount,   *)
(* and TicketMatcher's loop selects the same ticket, also when several     *)
(* candidates are equally near.                                            *)
(***************************************************************************)
C24_NearestTicketSameInBoth ==
    pc = "pick_done" =>
        \A k \in DOMAIN df_drains :
            LET cands == matching_tickets(df_drains[k], df_tickets)
                amount == df_drains[k].total_collected
            IN  cands # <<>> =>
                    /\ \E j \in DOMAIN cands :
                          /\ cands[j].ticket_id = results[k].ticket_id
                          /\ cands[j].amount_collected = results[k].ticket_amount
                    /\ \A j \in DOMAIN cands :
                          abs(amount - cands[j].amount_collected)
                              >= abs(amount - results[k].ticket_amount)
                    /\ first[k].ticket_id = results[k].ticket_id

\* a drain of 50 with a farther ticket first and then two equally near
\* tickets, 52 before 48: both implementations take the 52
C24_Witness ==
    /\ pc = "pick_done" /\ Len(df_tickets.rows) = 3
    /\ Len(df_drains) >= 1
    /\ df_drains[1].total_collected = 50
    /\ Column(matching_tickets(df_drains[1], df_tickets), "amount_collected")
           = <<78, 52, 48>>
    /\ results[1].ticket_id = 2 /\ first[1].ticket_id = 2

(***************************************************************************)
(* C25: match_drains_to_tickets never consumes a ticket: the ticket table  *)
(* is the same after each drain, every drain is matched against the full   *)
(* table (its result is NO_TICKET_FOUND only when no ticket of the table   *)
(* has its tank and ticket date, and otherwise names a nearest ticket of   *)
(* the full table), so two drains of one tank with the same ticket date    *)
(* and amount get the same ticket_id.                                      *)
(***************************************************************************)
C25_TicketsNotConsumed ==
    pc # "transform" =>
        /\ df_tickets = transform_tickets(tickets_data)
        /\ \A k \in DOMAIN results :
              LET cands == matching_tickets(df_drains[k], df_tickets)
                  amount == df_drains[k].total_collected
              IN  /\ results[k].status = "NO_TICKET_FOUND" <=> cands = <<>>
                  /\ cands # <<>> =>
                        /\ \E j \in DOMAIN cands :
                              cands[j].ticket_id = results[k].ticket_id
                        /\ \A j \in DOMAIN cands :
                              abs(amount - cands[j].amount_collected)
                                  >= abs(amount - results[k].ticket_amount)
        /\ \A k \in DOMAIN results : \A j \in DOMAIN results :
              (/\ df_drains[k].cauldron_id = df_drains[j].cauldron_id
               /\ df_drains[k].ticket_date = df_drains[j].ticket_date
               /\ df_drains[k].total_collected = df_drains[j].total_collected)
                  => results[k].ticket_id = results[j].ticket_id

\* two different drains of c1 due on the same date, both assigned the only
\* ticket of c1 for that date
C25_Witness ==
    /\ pc = "match_done" /\ Len(results) = 2
    /\ df_drains[1].cauldron_id = "c1" /\ df_drains[2].cauldron_id = "c1"
    /\ df_drains[1].end_time # df_drains[2].end_time
    /\ df_drains[1].ticket_date = df_drains[2].ticket_date
    /\ results[1].ticket_id = 1 /\ results[2].ticket_id = 1
    /\ Len(matching_tickets(df_drains[2], df_tickets)) = 1

(***************************************************************************)
(* Specification of one detect_drain_events call on series that step       *)
(* between the levels 45, 25 and 5, so that two drains of 20 fit.          *)
(***************************************************************************)
StepLevels == {5, 25, 45}

InitDetectSteps ==
    /\ pc = "detect_entry"
    /\ \E n \in 0..MaxSamples : series \in SeriesOfLen(n, StepLevels)
    /\ cauldron_id = "c1"
    /\ fill_rate = 1
    /\ travel_time = 0
    /\ i = 1
    /\ det = DetectorStart
    /\ MatchIdle
    /\ FetchIdle
    /\ sort_memo = {}
    /\ AllIdle
    /\ RiskIdle

SpecDetectSteps == InitDetectSteps /\ [][NextDetect]_vars

(***************************************************************************)
(* C26: the events detect_drain_events emits for one tank are in           *)
(* chronological order and never overlap: every event has start_time <     *)
(* end_time, each event ends strictly before the next one starts, and no   *)
(* sample lies within two events.                                          *)
(***************************************************************************)
\* the positions of the samples from an event's start to its end
SamplesOf(ev) == IndexOf(ev.start_time)..IndexOf(ev.end_time)

C27_OpenDrainNotReported ==
    /\ (pc = "detect_done" /\ Len(series) >= 3
          /\ is_draining(series, Len(series))) =>
            /\ det.in_drain
            /\ \A j \in det.drain_start_idx..Len(series) : is_draining(series, j)
            /\ \A k \in DOMAIN det.drain_events :
                  det.drain_events[k].end_time < det.drain_start
            /\ \A k \in DOMAIN det.closed :
                  det.closed[k].end_time < det.drain_start
    /\ pc \in {"detect_loop", "detect_done"} =>
            /\ det.in_drain => det.drain_start_idx >= 2
            /\ \A k \in DOMAIN det.closed :
                  IndexOf(det.closed[k].start_time) >= 2

\* a series falling from 45 to 10 whose last two samples are flagged: the
\* call returns with the drain open and no event
C27_Witness ==
    /\ pc = "detect_done" /\ Len(series) = 3
    /\ series[1].level = 45 /\ series[2].level = 30 /\ series[3].level = 10
    /\ is_draining(series, 2) /\ is_draining(series, 3)
    /\ det.in_drain /\ det.peak_level = 45
    /\ det.drain_events = <<>>

(***************************************************************************)
(* C28: get_witch_performance attributes no NO_TICKET_FOUND result to any  *)
(* courier: a courier's suspicious_tickets is the number of UNDER_REPORTED *)
(* results on that courier's tickets, total_collections the number of      *)
(* drains assigned one of that courier's tickets, the collections of all   *)
(* couriers add up to the results that have a ticket, and a courier none   *)
(* of whose tickets was selected has no row.                               *)
(***************************************************************************)
\* the courier of the ticket a result row names
CourierOf(r) == TicketById(tickets_data, r.ticket_id).courier_id

RECURSIVE SumCollections(_)
SumCollections(rows) ==
    IF rows = <<>> THEN 0
    ELSE Head(rows).total_collections + SumCollections(Tail(rows))

C28_NoTicketNotAttributed ==
    Reported =>
        /\ \A k \in DOMAIN df_witch_perf :
              LET row == df_witch_perf[k]
                  assigned == { j \in DOMAIN results :
                                  /\ results[j].status # "NO_TICKET_FOUND"
                                  /\ CourierOf(results[j]) = row.courier_id }
              IN  /\ row.total_collections = Cardinality(assigned)
                  /\ row.total_collections > 0
                  /\ row.suspicious_tickets
                         = Cardinality({ j \in assigned :
                                           results[j].status = "UNDER_REPORTED" })
        /\ SumCollections(df_witch_perf)
               = Cardinality({ j \in DOMAIN results :
                                 results[j].status # "NO_TICKET_FOUND" })
        /\ \A k \in DOMAIN df_witch_perf : \A j \in DOMAIN df_witch_perf :
              df_witch_perf[k].courier_id = df_witch_perf[j].courier_id => k = j

\* two drains without a ticket and one under-reported drain on a ticket of
\* w2: only w2 is reported, with one collection and one suspicious ticket
C28_Witness ==
    /\ pc = "trust_done" /\ Len(results) = 3
    /\ Cardinality({ j \in DOMAIN results :
                       results[j].status = "NO_TICKET_FOUND" }) = 2
    /\ Len(df_witch_perf) = 1
    /\ df_witch_perf[1].courier_id = "w2"
    /\ df_witch_perf[1].total_collections = 1
    /\ df_witch_perf[1].suspicious_tickets = 1

(***************************************************************************)
(* C29: the urgency_score of get_overflow_priority never exceeds 1000, the *)
(* divisor of a HIGH, MEDIUM or LOW score is at least 6, 12 or 24, and the *)
(* score does not increase with effective_hours: of two ranked tanks the   *)
(* one with fewer effective hours never has the strictly lower score.  A   *)
(* tank whose hours are not a number has no score: it exceeds nothing and  *)
(* is neither below nor above another tank.                                *)
(***************************************************************************)
C29_UrgencyMonotone ==
    pc = "priority_done" =>
        /\ \A k \in DOMAIN df_priority :
              LET e == df_priority[k].effective_hours
                  s == df_priority[k].urgency_score
              IN  /\ ~FracLess(<<1000, 1>>, s)
                  /\ ~rate_isnan(e) =>
                        /\ s[2] > 0 /\ s[1] <= 1000 * s[2]
                        /\ df_priority[k].priority = "HIGH" => e[1] >= 6 * e[2]
                        /\ df_priority[k].priority = "MEDIUM" => e[1] >= 12 * e[2]
                        /\ df_priority[k].priority = "LOW" => e[1] >= 24 * e[2]
        /\ \A j \in DOMAIN df_priority : \A k \in DOMAIN df_priority :
              FracLess(df_priority[j].effective_hours, df_priority[k].effective_hours)
                  => ~FracLess(df_priority[j].urgency_score,
                               df_priority[k].urgency_score)

\* an URGENT tank with no effective hour left, scored 1000 by the floor of
\* the divisor, ranked above a HIGH tank
C29_Witness ==
    /\ pc = "priority_done" /\ Len(df_priority) = 2
    /\ df_priority[1].priority = "URGENT"
    /\ df_priority[1].effective_hours = <<0, 1>>
    /\ df_priority[1].urgency_score = <<1000, 1>>
    /\ df_priority[2].priority = "HIGH"
    /\ FracLess(df_priority[2].urgency_score, <<1000, 1>>)

(***************************************************************************)
(* C30: in every result for a drain with total_collected > 0, from either  *)
(* implementation, UNDER_REPORTED has difference < 0, OVER_REPORTED has    *)
(* difference > 0 and MATCHED has |difference| <= 2% of total_collected;   *)
(* the matched, under_reported, over_reported and no_ticket counts of      *)
(* get_matching_summary add up to total_drains, the number of drains.      *)
(***************************************************************************)
StatusAgreesWithDifference(r) ==
    (r.drain_amount > 0 /\ r.status # "NO_TICKET_FOUND") =>
        /\ r.difference = r.ticket_amount - r.drain_amount
        /\ r.status = "UNDER_REPORTED" => r.difference < 0
        /\ r.status = "OVER_REPORTED" => r.difference > 0
        /\ r.status = "MATCHED" => abs(r.difference) * 100 <= 2 * r.drain_amount
        /\ r.status \in {"UNDER_REPORTED", "OVER_REPORTED", "MATCHED"}

C30_StatusSignAndCounts ==
    /\ pc \in {"pick_loop", "pick_done", "pick_summarised"} =>
          \A k \in DOMAIN results : StatusAgreesWithDifference(results[k])
    /\ pc \in {"pick_done", "pick_summarised"} =>
          \A k \in DOMAIN first : StatusAgreesWithDifference(first[k])
    /\ pc = "pick_summarised" =>
          /\ summary.total_drains = Len(df_drains)
          /\ summary.matched + summary.under_reported
                 + summary.over_reported + summary.no_ticket
                 = summary.total_drains

\* a matched drain (49 against 50, exactly 2%) and an under-reported one (78
\* against 80) next to tickets of another cauldron only
C30_Witness ==
    /\ pc = "pick_summarised" /\ Len(results) = 2
    /\ results[1].status = "MATCHED" /\ results[1].difference = -1
    /\ results[2].status = "UNDER_REPORTED" /\ results[2].difference = -2
    /\ summary.matched = 1 /\ summary.under_reported = 1
    /\ summary.over_reported = 0 /\ summary.no_ticket = 0

====
